---- MODULE Spec2Model ----
(***************************************************************************)
(* Model of the parts of the course repository that decide something:      *)
(*   - day-2b, the human-in-the-loop approval gate                         *)
(*     (examples/2_long_running_operations.py) and the workflow that       *)
(*     drives it (run_shipping_workflow, utils/workflow_helpers.py);       *)
(*   - day-1b, the story refinement loop (examples/3_loop_workflow.py);    *)
(*   - day-3, run_session (day-3a/utils/session_helpers.py,                *)
(*     day-3b/utils/memory_helpers.py);                                    *)
(*   - day-2a, the currency tools (tools/currency_tools.py);               *)
(*   - day-4a, the counting plugins (examples/example_4_custom_plugins.py);*)
(*   - day-4b, analyze_results (utils/evaluation_helpers.py).              *)
(*                                                                         *)
(* Python values are modelled as follows: a dict is a record whose DOMAIN  *)
(* is the dict's key set, an f-string is the concatenation of its literal  *)
(* pieces and of ToString of its integer fields, None is the record None.  *)
(***************************************************************************)
EXTENDS Integers, Sequences, FiniteSets, TLC

VARIABLES
    tool_context,   \* the ToolContext the runtime hands to the tool
    last,           \* the most recent call of place_shipping_order, or None
    pinned,         \* an earlier first call kept for comparison, or None
    pc,             \* where run_shipping_workflow stands
    request,        \* how many workflows were started (one request each)
    query,          \* the request of the current workflow
    auto_approve,   \* the simulated human decision of the current workflow
    session_id,     \* the session of the current workflow
    events,         \* the events collected from the first run
    approval_info,  \* what check_for_approval returned, or None
    paused,         \* the runtime's saved state of paused tool calls
    calls,          \* the gate calls made for the current request
    runs,           \* the runner.run_async calls of the current workflow
    log,            \* every gate call made so far, in order
    pipeline_pc,    \* the agent of StoryPipeline that runs next
    times_looped,   \* completed iterations of StoryRefinementLoop
    agent_trace,    \* the agents that ran, in order
    story_state,    \* the session state the agents' output_key writes to
    escalate,       \* an event of the loop carried actions.escalate
    sessions,       \* the session service's store: the events of each session
    run_pc,         \* where run_session stands
    run_args,       \* the arguments of the current run_session call
    session_obj,    \* run_session's local variable session, or None
    pending,        \* the queries run_session has still to send
    stream,         \* events of the open run_async stream not yet consumed
    runner_calls,   \* every runner.run_async call made so far, in order
    run_count,      \* how many times run_session was called
    tool_call,      \* the currency tool called last and its arguments
    tool_result,    \* what that call returned
    counter_plugin,      \* the InvocationCounterPlugin's fields
    tool_tracker_plugin, \* the ToolUsageTrackerPlugin's fields
    received,       \* the callbacks the runner has dispatched, by kind
    results,        \* the content of the results file
    analysis        \* what analyze_results returned for it

gateVars == <<tool_context, last, pinned>>

workflowVars ==
    <<pc, request, query, auto_approve, session_id, events, approval_info,
      paused, calls, runs>>

logVars == <<log>>

loopVars ==
    <<pipeline_pc, times_looped, agent_trace, story_state, escalate>>

sessionVars ==
    <<sessions, run_pc, run_args, session_obj, pending, stream, runner_calls,
      run_count>>

currencyVars == <<tool_call, tool_result>>

pluginVars == <<counter_plugin, tool_tracker_plugin, received>>

evalVars == <<results, analysis>>

\* the state of days 2a, 3 and 4
dayVars == <<sessionVars, currencyVars, pluginVars, evalVars>>

vars ==
    <<tool_context, last, pinned, pc, request, query, auto_approve,
      session_id, events, approval_info, paused, calls, runs, log,
      pipeline_pc, times_looped, agent_trace, story_state, escalate,
      sessions, run_pc, run_args, session_obj, pending, stream, runner_calls,
      run_count, tool_call, tool_result, counter_plugin,
      tool_tracker_plugin, received, results, analysis>>

-----------------------------------------------------------------------------
(* Bounds of the model *)

\* quantities range from -MaxNegative to LARGE_ORDER_THRESHOLD + MaxAbove
MaxNegative == 1

MaxAbove == 1

\* calls that may reuse one ToolContext before the runtime supplies a new one
MaxRequested == 2

\* workflows run one after the other
MaxWorkflows == 2

\* parts an event holds at most
MaxParts == 2

\* logged calls range over quantities up to LARGE_ORDER_THRESHOLD + MaxLogAbove
MaxLogAbove == 2

\* gate calls kept in the log
MaxLog == 2

\* events in a list handed to check_for_approval
MaxEvents == 2

-----------------------------------------------------------------------------
(* Python values *)

None == [None |-> TRUE]

\* s contains t as a contiguous substring (Python: t in s)
Contains(s, t) ==
    \E i \in 1..(Len(s) - Len(t) + 1) : SubSeq(s, i, i + Len(t) - 1) = t

-----------------------------------------------------------------------------
(* The approval gate *)

LARGE_ORDER_THRESHOLD == 5

Quantities == (0 - MaxNegative)..(LARGE_ORDER_THRESHOLD + MaxAbove)

Destinations == {"", "Singapore"}

Confirmations == {None, [confirmed |-> TRUE], [confirmed |-> FALSE]}

\* a ToolContext as the runtime creates it for one tool call
NewToolContext(confirmation) ==
    [tool_confirmation |-> confirmation, requested |-> <<>>]

\* ToolContext.request_confirmation(hint=..., payload=...): the context
\* records the confirmation request for the runtime to pick up
request_confirmation(ctx, hint, payload) ==
    [ctx EXCEPT !.requested = Append(@, [hint |-> hint, payload |-> payload])]

\* the f-string of the hint (its leading warning sign, not ASCII, is left out)
Hint(num_containers, destination) ==
    "Large order: " \o ToString(num_containers) \o " containers to "
        \o destination \o ". Approve?"

\* the f-string of an order id
OrderId(num_containers, tag) ==
    "ORD-" \o ToString(num_containers) \o "-" \o tag

\* place_shipping_order with the threshold compared by < instead of <=
place_shipping_order_StrictThreshold(num_containers, destination, ctx) ==
    IF num_containers < LARGE_ORDER_THRESHOLD
    THEN [result |->
            [status |-> "approved",
             order_id |-> OrderId(num_containers, "AUTO"),
             num_containers |-> num_containers,
             destination |-> destination,
             message |-> "Order auto-approved: " \o ToString(num_containers)
                            \o " containers to " \o destination],
          tool_context |-> ctx]
    ELSE IF ctx.tool_confirmation = None
    THEN [result |->
            [status |-> "pending",
             message |-> "Order for " \o ToString(num_containers)
                            \o " containers requires approval"],
          tool_context |->
            request_confirmation(ctx,
                Hint(num_containers, destination),
                [num_containers |-> num_containers,
                 destination |-> destination])]
    ELSE IF ctx.tool_confirmation.confirmed
    THEN [result |->
            [status |-> "approved",
             order_id |-> OrderId(num_containers, "HUMAN"),
             num_containers |-> num_containers,
             destination |-> destination,
             message |-> "Order approved: " \o ToString(num_containers)
                            \o " containers to " \o destination],
          tool_context |-> ctx]
    ELSE [result |->
            [status |-> "rejected",
             message |-> "Order rejected: " \o ToString(num_containers)
                            \o " containers to " \o destination],
          tool_context |-> ctx]

\* place_shipping_order with the threshold one too high
place_shipping_order_ThresholdHigh(num_containers, destination, ctx) ==
    IF num_containers <= LARGE_ORDER_THRESHOLD + 1
    THEN [result |->
            [status |-> "approved",
             order_id |-> OrderId(num_containers, "AUTO"),
             num_containers |-> num_containers,
             destination |-> destination,
             message |-> "Order auto-approved: " \o ToString(num_containers)
                            \o " containers to " \o destination],
          tool_context |-> ctx]
    ELSE IF ctx.tool_confirmation = None
    THEN [result |->
            [status |-> "pending",
             message |-> "Order for " \o ToString(num_containers)
                            \o " containers requires approval"],
          tool_context |->
            request_confirmation(ctx,
                Hint(num_containers, destination),
                [num_containers |-> num_containers,
                 destination |-> destination])]
    ELSE IF ctx.tool_confirmation.confirmed
    THEN [result |->
            [status |-> "approved",
             order_id |-> OrderId(num_containers, "HUMAN"),
             num_containers |-> num_containers,
             destination |-> destination,
             message |-> "Order approved: " \o ToString(num_containers)
                            \o " containers to " \o destination],
          tool_context |-> ctx]
    ELSE [result |->
            [status |-> "rejected",
             message |-> "Order rejected: " \o ToString(num_containers)
                            \o " containers to " \o destination],
          tool_context |-> ctx]

\* place_shipping_order with the human approval tagged AUTO
place_shipping_order_HumanTaggedAuto(num_containers, destination, ctx) ==
    IF num_containers <= LARGE_ORDER_THRESHOLD
    THEN [result |->
            [status |-> "approved",
             order_id |-> OrderId(num_containers, "AUTO"),
             num_containers |-> num_containers,
             destination |-> destination,
             message |-> "Order auto-approved: " \o ToString(num_containers)
                            \o " containers to " \o destination],
          tool_context |-> ctx]
    ELSE IF ctx.tool_confirmation = None
    THEN [result |->
            [status |-> "pending",
             message |-> "Order for " \o ToString(num_containers)
                            \o " containers requires approval"],
          tool_context |->
            request_confirmation(ctx,
                Hint(num_containers, destination),
                [num_containers |-> num_containers,
                 destination |-> destination])]
    ELSE IF ctx.tool_confirmation.confirmed
    THEN [result |->
            [status |-> "approved",
             order_id |-> OrderId(num_containers, "AUTO"),
             num_containers |-> num_containers,
             destination |-> destination,
             message |-> "Order approved: " \o ToString(num_containers)
                            \o " containers to " \o destination],
          tool_context |-> ctx]
    ELSE [result |->
            [status |-> "rejected",
             message |-> "Order rejected: " \o ToString(num_containers)
                            \o " containers to " \o destination],
          tool_context |-> ctx]

\* place_shipping_order with the human decision read the wrong way round
place_shipping_order_Inverted(num_containers, destination, ctx) ==
    IF num_containers <= LARGE_ORDER_THRESHOLD
    THEN [result |->
            [status |-> "approved",
             order_id |-> OrderId(num_containers, "AUTO"),
             num_containers |-> num_containers,
             destination |-> destination,
             message |-> "Order auto-approved: " \o ToString(num_containers)
                            \o " containers to " \o destination],
          tool_context |-> ctx]
    ELSE IF ctx.tool_confirmation = None
    THEN [result |->
            [status |-> "pending",
             message |-> "Order for " \o ToString(num_containers)
                            \o " containers requires approval"],
          tool_context |->
            request_confirmation(ctx,
                Hint(num_containers, destination),
                [num_containers |-> num_containers,
                 destination |-> destination])]
    ELSE IF ~ctx.tool_confirmation.confirmed
    THEN [result |->
            [status |-> "approved",
             order_id |-> OrderId(num_containers, "HUMAN"),
             num_containers |-> num_containers,
             destination |-> destination,
             message |-> "Order approved: " \o ToString(num_containers)
                            \o " containers to " \o destination],
          tool_context |-> ctx]
    ELSE [result |->
            [status |-> "rejected",
             message |-> "Order rejected: " \o ToString(num_containers)
                            \o " containers to " \o destination],
          tool_context |-> ctx]

\* place_shipping_order with a rejection that still carries an order id
place_shipping_order_RejectedWithId(num_containers, destination, ctx) ==
    IF num_containers <= LARGE_ORDER_THRESHOLD
    THEN [result |->
            [status |-> "approved",
             order_id |-> OrderId(num_containers, "AUTO"),
             num_containers |-> num_containers,
             destination |-> destination,
             message |-> "Order auto-approved: " \o ToString(num_containers)
                            \o " containers to " \o destination],
          tool_context |-> ctx]
    ELSE IF ctx.tool_confirmation = None
    THEN [result |->
            [status |-> "pending",
             message |-> "Order for " \o ToString(num_containers)
                            \o " containers requires approval"],
          tool_context |->
            request_confirmation(ctx,
                Hint(num_containers, destination),
                [num_containers |-> num_containers,
                 destination |-> destination])]
    ELSE IF ctx.tool_confirmation.confirmed
    THEN [result |->
            [status |-> "approved",
             order_id |-> OrderId(num_containers, "HUMAN"),
             num_containers |-> num_containers,
             destination |-> destination,
             message |-> "Order approved: " \o ToString(num_containers)
                            \o " containers to " \o destination],
          tool_context |-> ctx]
    ELSE [result |->
            [status |-> "rejected",
             order_id |-> OrderId(num_containers, "HUMAN"),
             message |-> "Order rejected: " \o ToString(num_containers)
                            \o " containers to " \o destination],
          tool_context |-> ctx]

\* place_shipping_order asking for confirmation before it looks at the
\* threshold
place_shipping_order_RequestFirst(num_containers, destination, ctx) ==
    LET asked == IF ctx.tool_confirmation = None
                 THEN request_confirmation(ctx,
                          Hint(num_containers, destination),
                          [num_containers |-> num_containers,
                           destination |-> destination])
                 ELSE ctx
    IN  IF num_containers <= LARGE_ORDER_THRESHOLD
        THEN [result |->
                [status |-> "approved",
                 order_id |-> OrderId(num_containers, "AUTO"),
                 num_containers |-> num_containers,
                 destination |-> destination,
                 message |-> "Order auto-approved: "
                                \o ToString(num_containers)
                                \o " containers to " \o destination],
              tool_context |-> asked]
        ELSE IF ctx.tool_confirmation = None
        THEN [result |->
                [status |-> "pending",
                 message |-> "Order for " \o ToString(num_containers)
                                \o " containers requires approval"],
              tool_context |-> asked]
        ELSE IF ctx.tool_confirmation.confirmed
        THEN [result |->
                [status |-> "approved",
                 order_id |-> OrderId(num_containers, "HUMAN"),
                 num_containers |-> num_containers,
                 destination |-> destination,
                 message |-> "Order approved: " \o ToString(num_containers)
                                \o " containers to " \o destination],
              tool_context |-> ctx]
        ELSE [result |->
                [status |-> "rejected",
                 message |-> "Order rejected: " \o ToString(num_containers)
                                \o " containers to " \o destination],
              tool_context |-> ctx]

\* place_shipping_order pausing again when the human declined
place_shipping_order_Repause(num_containers, destination, ctx) ==
    IF num_containers <= LARGE_ORDER_THRESHOLD
    THEN [result |->
            [status |-> "approved",
             order_id |-> OrderId(num_containers, "AUTO"),
             num_containers |-> num_containers,
             destination |-> destination,
             message |-> "Order auto-approved: " \o ToString(num_containers)
                            \o " containers to " \o destination],
          tool_context |-> ctx]
    ELSE IF ctx.tool_confirmation = None \/ ~ctx.tool_confirmation.confirmed
    THEN [result |->
            [status |-> "pending",
             message |-> "Order for " \o ToString(num_containers)
                            \o " containers requires approval"],
          tool_context |->
            request_confirmation(ctx,
                Hint(num_containers, destination),
                [num_containers |-> num_containers,
                 destination |-> destination])]
    ELSE [result |->
            [status |-> "approved",
             order_id |-> OrderId(num_containers, "HUMAN"),
             num_containers |-> num_containers,
             destination |-> destination,
             message |-> "Order approved: " \o ToString(num_containers)
                            \o " containers to " \o destination],
          tool_context |-> ctx]

\* place_shipping_order not asking again on a context that already holds a
\* confirmation request
place_shipping_order_AsksOnce(num_containers, destination, ctx) ==
    IF num_containers <= LARGE_ORDER_THRESHOLD
    THEN [result |->
            [status |-> "approved",
             order_id |-> OrderId(num_containers, "AUTO"),
             num_containers |-> num_containers,
             destination |-> destination,
             message |-> "Order auto-approved: " \o ToString(num_containers)
                            \o " containers to " \o destination],
          tool_context |-> ctx]
    ELSE IF ctx.tool_confirmation = None
    THEN [result |->
            [status |-> "pending",
             message |-> "Order for " \o ToString(num_containers)
                            \o " containers requires approval"],
          tool_context |->
            IF ctx.requested = <<>>
            THEN request_confirmation(ctx,
                     Hint(num_containers, destination),
                     [num_containers |-> num_containers,
                      destination |-> destination])
            ELSE ctx]
    ELSE IF ctx.tool_confirmation.confirmed
    THEN [result |->
            [status |-> "approved",
             order_id |-> OrderId(num_containers, "HUMAN"),
             num_containers |-> num_containers,
             destination |-> destination,
             message |-> "Order approved: " \o ToString(num_containers)
                            \o " containers to " \o destination],
          tool_context |-> ctx]
    ELSE [result |->
            [status |-> "rejected",
             message |-> "Order rejected: " \o ToString(num_containers)
                            \o " containers to " \o destination],
          tool_context |-> ctx]

\* the dict returned for an auto-approved order
AutoApprovedResult(num_containers, destination) ==
    [status |-> "approved",
     order_id |-> OrderId(num_containers, "AUTO"),
     num_containers |-> num_containers,
     destination |-> destination,
     message |-> "Order auto-approved: " \o ToString(num_containers)
                    \o " containers to " \o destination]

\* the dict returned when the call pauses
PendingResult(num_containers) ==
    [status |-> "pending",
     message |-> "Order for " \o ToString(num_containers)
                    \o " containers requires approval"]

\* the dict returned for an order the human approved
HumanApprovedResult(num_containers, destination) ==
    [status |-> "approved",
     order_id |-> OrderId(num_containers, "HUMAN"),
     num_containers |-> num_containers,
     destination |-> destination,
     message |-> "Order approved: " \o ToString(num_containers)
                    \o " containers to " \o destination]

\* the dict returned for an order the human declined
RejectedResult(num_containers, destination) ==
    [status |-> "rejected",
     message |-> "Order rejected: " \o ToString(num_containers)
                    \o " containers to " \o destination]

\* the context after the call asked for a confirmation of its request
Asked(ctx, num_containers, destination) ==
    request_confirmation(ctx,
        Hint(num_containers, destination),
        [num_containers |-> num_containers, destination |-> destination])

\* place_shipping_order refusing a negative quantity with an error result
place_shipping_order_NegativeRefused(num_containers, destination, ctx) ==
    IF num_containers < 0
    THEN [result |-> [status |-> "error",
                      message |-> "Invalid number of containers"],
          tool_context |-> ctx]
    ELSE IF num_containers <= LARGE_ORDER_THRESHOLD
    THEN [result |-> AutoApprovedResult(num_containers, destination),
          tool_context |-> ctx]
    ELSE IF ctx.tool_confirmation = None
    THEN [result |-> PendingResult(num_containers),
          tool_context |-> Asked(ctx, num_containers, destination)]
    ELSE IF ctx.tool_confirmation.confirmed
    THEN [result |-> HumanApprovedResult(num_containers, destination),
          tool_context |-> ctx]
    ELSE [result |-> RejectedResult(num_containers, destination),
          tool_context |-> ctx]

\* place_shipping_order giving up, with a rejection, when it is asked again
\* on a context whose confirmation request was never answered
place_shipping_order_GivesUp(num_containers, destination, ctx) ==
    IF num_containers <= LARGE_ORDER_THRESHOLD
    THEN [result |-> AutoApprovedResult(num_containers, destination),
          tool_context |-> ctx]
    ELSE IF ctx.tool_confirmation = None /\ ctx.requested # <<>>
    THEN [result |-> RejectedResult(num_containers, destination),
          tool_context |-> ctx]
    ELSE IF ctx.tool_confirmation = None
    THEN [result |-> PendingResult(num_containers),
          tool_context |-> Asked(ctx, num_containers, destination)]
    ELSE IF ctx.tool_confirmation.confirmed
    THEN [result |-> HumanApprovedResult(num_containers, destination),
          tool_context |-> ctx]
    ELSE [result |-> RejectedResult(num_containers, destination),
          tool_context |-> ctx]

\* place_shipping_order taking a confirmation only if every request left on
\* the context is for the request of this call
place_shipping_order_SeesOtherRequests(num_containers, destination, ctx) ==
    IF num_containers <= LARGE_ORDER_THRESHOLD
    THEN [result |-> AutoApprovedResult(num_containers, destination),
          tool_context |-> ctx]
    ELSE IF ctx.tool_confirmation = None
    THEN [result |-> PendingResult(num_containers),
          tool_context |-> Asked(ctx, num_containers, destination)]
    ELSE IF /\ ctx.tool_confirmation.confirmed
            /\ \A i \in 1..Len(ctx.requested) :
                  ctx.requested[i].payload =
                      [num_containers |-> num_containers,
                       destination |-> destination]
    THEN [result |-> HumanApprovedResult(num_containers, destination),
          tool_context |-> ctx]
    ELSE [result |-> RejectedResult(num_containers, destination),
          tool_context |-> ctx]

\* place_shipping_order taking a confirmation only for a request that is
\* waiting on the context, and rejecting any other
place_shipping_order_ChecksPause(num_containers, destination, ctx) ==
    IF num_containers <= LARGE_ORDER_THRESHOLD
    THEN [result |-> AutoApprovedResult(num_containers, destination),
          tool_context |-> ctx]
    ELSE IF ctx.tool_confirmation = None
    THEN [result |-> PendingResult(num_containers),
          tool_context |-> Asked(ctx, num_containers, destination)]
    ELSE IF /\ ctx.tool_confirmation.confirmed
            /\ \E i \in 1..Len(ctx.requested) :
                  ctx.requested[i].payload =
                      [num_containers |-> num_containers,
                       destination |-> destination]
    THEN [result |-> HumanApprovedResult(num_containers, destination),
          tool_context |-> ctx]
    ELSE [result |-> RejectedResult(num_containers, destination),
          tool_context |-> ctx]

\* place_shipping_order rejecting an empty destination
place_shipping_order_BlankRefused(num_containers, destination, ctx) ==
    IF destination = ""
    THEN [result |-> RejectedResult(num_containers, destination),
          tool_context |-> ctx]
    ELSE IF num_containers <= LARGE_ORDER_THRESHOLD
    THEN [result |-> AutoApprovedResult(num_containers, destination),
          tool_context |-> ctx]
    ELSE IF ctx.tool_confirmation = None
    THEN [result |-> PendingResult(num_containers),
          tool_context |-> Asked(ctx, num_containers, destination)]
    ELSE IF ctx.tool_confirmation.confirmed
    THEN [result |-> HumanApprovedResult(num_containers, destination),
          tool_context |-> ctx]
    ELSE [result |-> RejectedResult(num_containers, destination),
          tool_context |-> ctx]

\* place_shipping_order approving, on resume, the request it finds waiting
\* on the context instead of the one in its arguments
place_shipping_order_FromPayload(num_containers, destination, ctx) ==
    IF num_containers <= LARGE_ORDER_THRESHOLD
    THEN [result |-> AutoApprovedResult(num_containers, destination),
          tool_context |-> ctx]
    ELSE IF ctx.tool_confirmation = None
    THEN [result |-> PendingResult(num_containers),
          tool_context |-> Asked(ctx, num_containers, destination)]
    ELSE IF ctx.tool_confirmation.confirmed
    THEN [result |->
            IF ctx.requested = <<>>
            THEN HumanApprovedResult(num_containers, destination)
            ELSE HumanApprovedResult(
                     ctx.requested[Len(ctx.requested)].payload.num_containers,
                     ctx.requested[Len(ctx.requested)].payload.destination),
          tool_context |-> ctx]
    ELSE [result |-> RejectedResult(num_containers, destination),
          tool_context |-> ctx]

\* place_shipping_order(num_containers, destination, tool_context): the
\* returned dict and the ToolContext as the call leaves it
place_shipping_order(num_containers, destination, ctx) ==
    IF num_containers <= LARGE_ORDER_THRESHOLD
    THEN [result |->
            [status |-> "approved",
             order_id |-> OrderId(num_containers, "AUTO"),
             num_containers |-> num_containers,
             destination |-> destination,
             message |-> "Order auto-approved: " \o ToString(num_containers)
                            \o " containers to " \o destination],
          tool_context |-> ctx]
    ELSE IF ctx.tool_confirmation = None
    THEN [result |->
            [status |-> "pending",
             message |-> "Order for " \o ToString(num_containers)
                            \o " containers requires approval"],
          tool_context |->
            request_confirmation(ctx,
                Hint(num_containers, destination),
                [num_containers |-> num_containers,
                 destination |-> destination])]
    ELSE IF ctx.tool_confirmation.confirmed
    THEN [result |->
            [status |-> "approved",
             order_id |-> OrderId(num_containers, "HUMAN"),
             num_containers |-> num_containers,
             destination |-> destination,
             message |-> "Order approved: " \o ToString(num_containers)
                            \o " containers to " \o destination],
          tool_context |-> ctx]
    ELSE [result |->
            [status |-> "rejected",
             message |-> "Order rejected: " \o ToString(num_containers)
                            \o " containers to " \o destination],
          tool_context |-> ctx]

-----------------------------------------------------------------------------
(* Direct calls of the gate: the tool is an ordinary function, callable    *)
(* with any quantity, destination and confirmation.                        *)

\* the record of one call: its arguments, how many confirmation requests
\* the context already held, what the call returned and the confirmation
\* requests it issued
CallRecord(num_containers, destination, ctx, out) ==
    [num_containers |-> num_containers,
     destination |-> destination,
     tool_confirmation |-> ctx.tool_confirmation,
     requested_before |-> Len(ctx.requested),
     result |-> out.result,
     emitted |-> SubSeq(out.tool_context.requested,
                        Len(ctx.requested) + 1,
                        Len(out.tool_context.requested))]

\* the tool is invoked on the context ctx
Invoke(num_containers, destination, ctx, pin) ==
    LET out == place_shipping_order(num_containers, destination, ctx)
        rec == CallRecord(num_containers, destination, ctx, out)
    IN  /\ tool_context' = out.tool_context
        /\ last' = rec
        /\ pinned' = IF pin THEN rec ELSE pinned

\* the context in use, with the confirmation the caller puts in it
WithConfirmation(confirmation) ==
    [tool_context EXCEPT !.tool_confirmation = confirmation]

\* a call with no confirmation present
FirstCall ==
    /\ Len(tool_context.requested) < MaxRequested
    /\ \E q \in Quantities, d \in Destinations, pin \in BOOLEAN :
          Invoke(q, d, WithConfirmation(None), pin)
    /\ UNCHANGED <<workflowVars, logVars, loopVars, dayVars>>

\* a call with a confirmation present
ResumeCall ==
    /\ Len(tool_context.requested) < MaxRequested
    /\ \E q \in Quantities, d \in Destinations, confirmed \in BOOLEAN :
          Invoke(q, d, WithConfirmation([confirmed |-> confirmed]), FALSE)
    /\ UNCHANGED <<workflowVars, logVars, loopVars, dayVars>>

\* the runtime supplies a new ToolContext for the next tool call
FreshContext ==
    /\ tool_context.requested # <<>>
    /\ tool_context' = NewToolContext(None)
    /\ UNCHANGED <<last, pinned>>
    /\ UNCHANGED <<workflowVars, logVars, loopVars, dayVars>>

-----------------------------------------------------------------------------
(* utils/workflow_helpers.py.  An event is a record with an invocation_id  *)
(* and, unless its content is None, a content holding a sequence of parts; *)
(* a part carries exactly the fields that are not None on the Python       *)
(* object (text, function_call or function_response).                      *)

CONFIRMATION_CALL == "adk_request_confirmation"

\* part.function_call and part.function_call.name == "adk_request_confirmation"
IsConfirmationRequest(part) ==
    /\ "function_call" \in DOMAIN part
    /\ part.function_call.name = CONFIRMATION_CALL

\* event.content and event.content.parts
HasParts(event) ==
    /\ "content" \in DOMAIN event
    /\ event.content.parts # <<>>

\* the positions <<event, part>> the nested loops of check_for_approval
\* return at
ApprovalPositions(evs) ==
    {ij \in (1..Len(evs)) \X (1..MaxParts) :
        /\ HasParts(evs[ij[1]])
        /\ ij[2] <= Len(evs[ij[1]].content.parts)
        /\ IsConfirmationRequest(evs[ij[1]].content.parts[ij[2]])}

\* position a is visited before position b by the nested loops
Before(a, b) == a[1] < b[1] \/ (a[1] = b[1] /\ a[2] <= b[2])

\* check_for_approval returning the last confirmation request it meets
check_for_approval_LastMatch(evs) ==
    IF ApprovalPositions(evs) = {}
    THEN None
    ELSE LET final == CHOOSE a \in ApprovalPositions(evs) :
                          \A b \in ApprovalPositions(evs) : Before(b, a)
             part == evs[final[1]].content.parts[final[2]]
         IN  [approval_id |-> part.function_call.id,
              invocation_id |-> evs[final[1]].invocation_id]

\* check_for_approval(events)
check_for_approval(evs) ==
    IF ApprovalPositions(evs) = {}
    THEN None
    ELSE LET first == CHOOSE a \in ApprovalPositions(evs) :
                          \A b \in ApprovalPositions(evs) : Before(a, b)
             part == evs[first[1]].content.parts[first[2]]
         IN  [approval_id |-> part.function_call.id,
              invocation_id |-> evs[first[1]].invocation_id]

\* create_approval_response answering with an approval whatever was decided
create_approval_response_AlwaysApproves(info, approved) ==
    [role |-> "user",
     parts |-> <<[function_response |->
                    [id |-> info.approval_id,
                     name |-> CONFIRMATION_CALL,
                     response |-> [confirmed |-> TRUE]]]>>]

\* create_approval_response answering under the invocation's id instead of
\* the confirmation request's
create_approval_response_WrongId(info, approved) ==
    [role |-> "user",
     parts |-> <<[function_response |->
                    [id |-> info.invocation_id,
                     name |-> CONFIRMATION_CALL,
                     response |-> [confirmed |-> approved]]]>>]

\* create_approval_response(approval_info, approved)
create_approval_response(info, approved) ==
    [role |-> "user",
     parts |-> <<[function_response |->
                    [id |-> info.approval_id,
                     name |-> CONFIRMATION_CALL,
                     response |-> [confirmed |-> approved]]]>>]

-----------------------------------------------------------------------------
(* The runtime behind runner.run_async, by the contract the workflow       *)
(* relies on: a run hands the request to the tool at most once; a tool     *)
(* call that requested a confirmation is saved and announced by an         *)
(* adk_request_confirmation function call; a run that carries the matching *)
(* function response re-invokes the saved call with the answer in          *)
(* tool_context.tool_confirmation.                                         *)

SessionId(n) == "order_" \o ToString(n)

InvocationId(n) == "e-" \o ToString(n)

FunctionCallId(n) == "adk-call-" \o ToString(n)

ConfirmationId(n, k) == "adk-confirm-" \o ToString(n) \o "-" \o ToString(k)

TextEvent(inv, text) ==
    [invocation_id |-> inv, content |-> [parts |-> <<[text |-> text]>>]]

ToolCallEvent(inv, id, num_containers, destination) ==
    [invocation_id |-> inv,
     content |-> [parts |-> <<[function_call |->
        [id |-> id,
         name |-> "place_shipping_order",
         args |-> [num_containers |-> num_containers,
                   destination |-> destination]]]>>]]

ToolResponseEvent(inv, id, result) ==
    [invocation_id |-> inv,
     content |-> [parts |-> <<[function_response |->
        [id |-> id, name |-> "place_shipping_order", response |-> result]]>>]]

ConfirmationEvent(inv, id, requested) ==
    [invocation_id |-> inv,
     content |-> [parts |-> <<[function_call |->
        [id |-> id,
         name |-> CONFIRMATION_CALL,
         args |-> [hint |-> requested.hint, payload |-> requested.payload]]]>>]]

\* the events of a run in which the tool was called on ctx and returned out
ToolRunEvents(inv, n, k, num_containers, destination, out) ==
    <<ToolCallEvent(inv, FunctionCallId(n), num_containers, destination)>>
    \o (IF out.tool_context.requested # <<>>
        THEN <<ConfirmationEvent(inv, ConfirmationId(n, k),
                   out.tool_context.requested[1])>>
        ELSE <<>>)
    \o <<ToolResponseEvent(inv, FunctionCallId(n), out.result)>>
    \o (IF out.tool_context.requested # <<>>
        THEN <<>>
        ELSE <<TextEvent(inv, out.result.message)>>)

\* what the runtime saves when the tool call of a run requested confirmation
PausedCall(session, inv, id, num_containers, destination) ==
    [session_id |-> session,
     invocation_id |-> inv,
     approval_id |-> id,
     num_containers |-> num_containers,
     destination |-> destination]

\* the saved calls a resuming run addresses: same session, same invocation
\* and a function response answering their confirmation request
Addressed(session, inv, message) ==
    {p \in paused :
        /\ p.session_id = session
        /\ p.invocation_id = inv
        /\ \E i \in 1..Len(message.parts) :
              /\ "function_response" \in DOMAIN message.parts[i]
              /\ message.parts[i].function_response.name = CONFIRMATION_CALL
              /\ message.parts[i].function_response.id = p.approval_id}

\* the answer the message carries for the saved call p
Answer(p, message) ==
    LET i == CHOOSE i \in 1..Len(message.parts) :
                /\ "function_response" \in DOMAIN message.parts[i]
                /\ message.parts[i].function_response.id = p.approval_id
    IN  message.parts[i].function_response.response.confirmed

-----------------------------------------------------------------------------
(* run_shipping_workflow *)

\* the workflow is called with a query and a simulated decision, and
\* creates the session of this run
StartWorkflow ==
    /\ pc \in {"idle", "done"}
    /\ request < MaxWorkflows
    /\ \E q \in Quantities, d \in Destinations, decision \in BOOLEAN :
          /\ query' = [num_containers |-> q, destination |-> d]
          /\ auto_approve' = decision
    /\ request' = request + 1
    /\ session_id' = SessionId(request + 1)
    /\ events' = <<>>
    /\ approval_info' = None
    /\ calls' = <<>>
    /\ runs' = <<>>
    /\ pc' = "created"
    /\ UNCHANGED <<gateVars, paused, logVars, loopVars, dayVars>>

\* STEP 1: the first run is drained into events; the agent either calls
\* the tool with the request or answers without calling it
FirstRun ==
    /\ pc = "created"
    /\ \E callsTool \in BOOLEAN :
          IF callsTool
          THEN LET inv == InvocationId(request)
                   ctx == NewToolContext(None)
                   out == place_shipping_order(query.num_containers,
                              query.destination, ctx)
                   rec == CallRecord(query.num_containers,
                              query.destination, ctx, out)
               IN  /\ Invoke(query.num_containers, query.destination, ctx,
                             FALSE)
                   /\ calls' = Append(calls, rec)
                   /\ events' = ToolRunEvents(inv, request, 1,
                          query.num_containers, query.destination, out)
                   /\ paused' =
                        IF out.tool_context.requested # <<>>
                        THEN paused \cup
                               {PausedCall(session_id, inv,
                                    ConfirmationId(request, 1),
                                    query.num_containers, query.destination)}
                        ELSE paused
          ELSE /\ events' = <<TextEvent(InvocationId(request),
                                 "How many containers?")>>
               /\ UNCHANGED <<gateVars, paused, calls>>
    /\ runs' = Append(runs,
           [user_id |-> "test_user",
            session_id |-> session_id,
            new_message |-> [role |-> "user", parts |-> <<[text |-> query]>>]])
    /\ pc' = "collected"
    /\ UNCHANGED <<request, query, auto_approve, session_id, approval_info,
                   logVars, loopVars, dayVars>>

\* STEP 2: approval_info = check_for_approval(events)
CheckApproval ==
    /\ pc = "collected"
    /\ approval_info' = check_for_approval(events)
    /\ pc' = "checked"
    /\ UNCHANGED <<gateVars, request, query, auto_approve, session_id,
                   events, paused, calls, runs, logVars, loopVars, dayVars>>

\* if approval_info:
ShouldResume(info) == info # None

\* STEP 3: the second run, with the decision and the invocation_id of the
\* pause
ResumeRun ==
    /\ pc = "checked"
    /\ ShouldResume(approval_info)
    /\ LET message == create_approval_response(approval_info, auto_approve)
           found == Addressed(session_id, approval_info.invocation_id,
                        message)
       IN  IF found # {}
           THEN LET p == CHOOSE p \in found : TRUE
                    ctx == NewToolContext(
                               [confirmed |-> Answer(p, message)])
                    out == place_shipping_order(p.num_containers,
                               p.destination, ctx)
                    rec == CallRecord(p.num_containers, p.destination,
                               ctx, out)
                IN  /\ Invoke(p.num_containers, p.destination, ctx, FALSE)
                    /\ calls' = Append(calls, rec)
                    /\ paused' =
                         IF out.tool_context.requested # <<>>
                         THEN (paused \ {p}) \cup
                                {PausedCall(p.session_id, p.invocation_id,
                                     ConfirmationId(request, Len(calls) + 1),
                                     p.num_containers, p.destination)}
                         ELSE paused \ {p}
           ELSE UNCHANGED <<gateVars, paused, calls>>
    /\ runs' = Append(runs,
           [user_id |-> "test_user",
            session_id |-> session_id,
            new_message |->
                create_approval_response(approval_info, auto_approve),
            invocation_id |-> approval_info.invocation_id])
    /\ pc' = "done"
    /\ UNCHANGED <<request, query, auto_approve, session_id, events,
                   approval_info, logVars, loopVars, dayVars>>

\* else: no approval needed, the order completed in the first run
CompleteImmediately ==
    /\ pc = "checked"
    /\ ~ShouldResume(approval_info)
    /\ pc' = "done"
    /\ UNCHANGED <<gateVars, request, query, auto_approve, session_id,
                   events, approval_info, paused, calls, runs, logVars,
                   loopVars, dayVars>>

-----------------------------------------------------------------------------
(* The gate called in and out of protocol, every call kept in log: a call  *)
(* with a confirmation may come for a request that never paused, or with   *)
(* other arguments than those of the call that paused.                     *)

LogQuantities ==
    (LARGE_ORDER_THRESHOLD - 1)..(LARGE_ORDER_THRESHOLD + MaxLogAbove)

\* the tool is invoked on the context in use and the call is logged
LoggedCall(num_containers, destination, confirmation) ==
    LET ctx == WithConfirmation(confirmation)
        out == place_shipping_order(num_containers, destination, ctx)
    IN  /\ Invoke(num_containers, destination, ctx, FALSE)
        /\ log' = Append(log,
                     CallRecord(num_containers, destination, ctx, out))

\* a call with no confirmation present
LogFirstCall ==
    /\ Len(log) < MaxLog
    /\ \E q \in LogQuantities, d \in Destinations : LoggedCall(q, d, None)
    /\ UNCHANGED <<workflowVars, loopVars, dayVars>>

\* a call with a confirmation present, for any request
LogResumeCall ==
    /\ Len(log) < MaxLog
    /\ \E q \in LogQuantities, d \in Destinations, confirmed \in BOOLEAN :
          LoggedCall(q, d, [confirmed |-> confirmed])
    /\ UNCHANGED <<workflowVars, loopVars, dayVars>>

LogNext ==
    \/ LogFirstCall
    \/ LogResumeCall

-----------------------------------------------------------------------------
(* day-1b, the loop workflow (examples/3_loop_workflow.py and              *)
(* create_loop_refinement of multi_agent_demo.py, which build the same     *)
(* agents).  The language model's outputs are free choices.  LoopAgent     *)
(* runs its sub_agents in order, again and again, until an event carries   *)
(* actions.escalate or max_iterations iterations are complete;             *)
(* SequentialAgent runs its sub_agents once, in order.                     *)

\* max_iterations with one more iteration allowed
max_iterations_OneMore == 2 + 1

\* LoopAgent(max_iterations=2)
max_iterations == 2

\* LoopAgent(name="StoryRefinementLoop", sub_agents=[critic_agent,
\* refiner_agent])
story_refinement_loop == <<"CriticAgent", "RefinerAgent">>

\* SequentialAgent(name="StoryPipeline", sub_agents=[initial_writer_agent,
\* story_refinement_loop])
story_pipeline == <<"InitialWriterAgent", "StoryRefinementLoop">>

\* exit_loop(): the dict it returns; it touches nothing else
exit_loop ==
    [status |-> "approved",
     message |-> "Story approved. Exiting refinement loop."]

\* what the user may ask for
Prompts ==
    {"Write a short story about a lighthouse keeper who discovers a mysterious, glowing map",
     "Write a short story about an AI that learns to dream",
     "Write a short story about the last tree on Earth"}

\* what the writer and the refiner may write
Stories == {"draft A", "draft B"}

\* what the critic may answer
Critiques == {"APPROVED", "Tighten the pacing"}

\* what the refiner may say after it called exit_loop ("" is nothing)
ClosingTexts == {"", "The story is approved."}

\* state[output_key] = text
WriteState(key, text) == (key :> text) @@ story_state

\* the agent that ran, in which iteration, and the tool calls it made
Ran(agent, tool_calls) ==
    [agent |-> agent, iteration |-> times_looped, tool_calls |-> tool_calls]

\* where the loop goes when the sub-agent at position k of its sub_agents
\* has run: the next sub-agent, or the first one again while iterations are
\* left and nothing escalated
AfterSubAgent(k, escalated) ==
    IF escalated
    THEN [pc |-> "done", looped |-> times_looped]
    ELSE IF k < Len(story_refinement_loop)
    THEN [pc |-> story_refinement_loop[k + 1], looped |-> times_looped]
    ELSE IF times_looped + 1 < max_iterations
    THEN [pc |-> story_refinement_loop[1], looped |-> times_looped + 1]
    ELSE [pc |-> "done", looped |-> times_looped + 1]

\* runner.run_debug(prompt): the pipeline starts with its first sub-agent
RunPipeline ==
    /\ pipeline_pc = "idle"
    /\ \E prompt \in Prompts : story_state' = [prompt |-> prompt]
    /\ pipeline_pc' = story_pipeline[1]
    /\ UNCHANGED <<times_looped, agent_trace, escalate>>
    /\ UNCHANGED <<gateVars, workflowVars, logVars, dayVars>>

\* InitialWriterAgent writes the first draft to current_story; the loop
\* comes next
RunInitialWriter ==
    /\ pipeline_pc = "InitialWriterAgent"
    /\ \E story \in Stories : story_state' = WriteState("current_story", story)
    /\ agent_trace' = Append(agent_trace, Ran("InitialWriterAgent", <<>>))
    /\ pipeline_pc' = IF times_looped < max_iterations
                      THEN story_refinement_loop[1]
                      ELSE "done"
    /\ UNCHANGED <<times_looped, escalate>>
    /\ UNCHANGED <<gateVars, workflowVars, logVars, dayVars>>

\* CriticAgent writes its answer to critique
RunCritic ==
    /\ pipeline_pc = "CriticAgent"
    /\ \E critique \in Critiques :
          story_state' = WriteState("critique", critique)
    /\ agent_trace' = Append(agent_trace, Ran("CriticAgent", <<>>))
    /\ pipeline_pc' = AfterSubAgent(1, escalate).pc
    /\ times_looped' = AfterSubAgent(1, escalate).looped
    /\ UNCHANGED escalate
    /\ UNCHANGED <<gateVars, workflowVars, logVars, dayVars>>

\* RefinerAgent rewrites current_story
RefinerRewrites ==
    /\ pipeline_pc = "RefinerAgent"
    /\ \E story \in Stories : story_state' = WriteState("current_story", story)
    /\ agent_trace' = Append(agent_trace, Ran("RefinerAgent", <<>>))
    /\ pipeline_pc' = AfterSubAgent(2, escalate).pc
    /\ times_looped' = AfterSubAgent(2, escalate).looped
    /\ UNCHANGED escalate
    /\ UNCHANGED <<gateVars, workflowVars, logVars, dayVars>>

\* RefinerAgent calls exit_loop, gets its dict back, and what it says after
\* that, if anything, is written to current_story
RefinerCallsExitLoop ==
    /\ pipeline_pc = "RefinerAgent"
    /\ exit_loop.status = "approved"
    /\ \E text \in ClosingTexts :
          story_state' = IF text = ""
                         THEN story_state
                         ELSE WriteState("current_story", text)
    /\ agent_trace' =
          Append(agent_trace, Ran("RefinerAgent", <<"exit_loop">>))
    /\ pipeline_pc' = AfterSubAgent(2, escalate).pc
    /\ times_looped' = AfterSubAgent(2, escalate).looped
    /\ UNCHANGED escalate
    /\ UNCHANGED <<gateVars, workflowVars, logVars, dayVars>>

LoopNext ==
    \/ RunPipeline
    \/ RunInitialWriter
    \/ RunCritic
    \/ RefinerRewrites
    \/ RefinerCallsExitLoop

-----------------------------------------------------------------------------
(* day-3, run_session (day-3a/utils/session_helpers.py and                 *)
(* day-3b/utils/memory_helpers.py).  A Python value that may be None, a    *)
(* string or a list is None, [str |-> s] or [list |-> l].  The session     *)
(* service and the runner are the toolkit's: create_session raises when    *)
(* the session exists, get_session returns None when it does not, and      *)
(* run_async raises when the runner's service has no such session.         *)

\* run_session calls in one behaviour
MaxSessionRuns == 2

\* queries in a list of queries
MaxQueries == 2

\* events one run_async stream yields
MaxStream == 1

PyStr(s) == [str |-> s]

PyList(l) == [list |-> l]

\* isinstance(value, str)
IsStr(value) == "str" \in DOMAIN value

\* the truth value Python gives to None, a string or a list
Truthy(value) ==
    IF value = None
    THEN FALSE
    ELSE IF IsStr(value) THEN value.str # "" ELSE Len(value.list) > 0

\* the runner the helpers are given
runner_instance == [app_name |-> "MemoryDemoApp"]

\* a list of n queries, each different from the others
QueryList(n) == [k \in 1..n |-> "query " \o ToString(k)]

\* what a caller may pass as user_queries
QueryInputs ==
    {None, PyStr(""), PyStr("Hello!")}
        \cup {PyList(QueryList(n)) : n \in 0..MaxQueries}

\* the session_name a caller passes: the calls of one conversation
SessionNames == {"test-123"}

\* the arguments of a call of session_helpers.run_session; the helper takes
\* the service and the app name from the runner
SessionHelperArgs ==
    {[helper |-> "session_helpers", user_queries |-> q, session_id |-> n,
      user_id |-> "default", app_name |-> runner_instance.app_name,
      session_service |-> TRUE] :
        q \in QueryInputs, n \in SessionNames}

\* the arguments of a call of memory_helpers.run_session; session_service
\* is the runner's service or left at its default, None (FALSE)
MemoryHelperArgs ==
    {[helper |-> "memory_helpers", user_queries |-> q, session_id |-> n,
      user_id |-> "default", app_name |-> "MemoryDemoApp",
      session_service |-> given] :
        q \in QueryInputs, n \in SessionNames, given \in BOOLEAN}

\* the key under which the service stores a session
SessionKey(app_name, user_id, id) == <<app_name, user_id, id>>

\* the Session object the service returns
Session(app_name, user_id, id) ==
    [app_name |-> app_name, user_id |-> user_id, id |-> id]

\* session_service.create_session: raises when the session exists
create_session(store, app_name, user_id, id) ==
    IF SessionKey(app_name, user_id, id) \in DOMAIN store
    THEN [raised |-> TRUE, store |-> store, session |-> None]
    ELSE [raised |-> FALSE,
          store |-> (SessionKey(app_name, user_id, id) :> <<>>) @@ store,
          session |-> Session(app_name, user_id, id)]

\* session_service.get_session: the session, or None
get_session(store, app_name, user_id, id) ==
    IF SessionKey(app_name, user_id, id) \in DOMAIN store
    THEN Session(app_name, user_id, id)
    ELSE None

\* try: create_session(...) except: get_session(...)
CreateOrRetrieve(store, args) ==
    LET created ==
            create_session(store, args.app_name, args.user_id,
                           args.session_id)
    IN  IF ~created.raised
        THEN [store |-> created.store, session |-> created.session]
        ELSE [store |-> store,
              session |-> get_session(store, args.app_name, args.user_id,
                                      args.session_id)]

\* the first step of run_session: session_helpers always creates or
\* retrieves the session; memory_helpers does so "if session_service:" and
\* leaves session unbound otherwise
EnsureSession(store, args) ==
    IF args.helper = "session_helpers" \/ args.session_service
    THEN CreateOrRetrieve(store, args)
    ELSE [store |-> store, session |-> None]

\* session_helpers: "if user_queries:", then a string becomes a list
session_helpers_queries(user_queries) ==
    IF Truthy(user_queries)
    THEN IF IsStr(user_queries)
         THEN <<user_queries.str>>
         ELSE user_queries.list
    ELSE <<>>

\* memory_helpers: a string becomes a list, then "if user_queries:"
memory_helpers_queries(user_queries) ==
    LET listed ==
            IF IsStr(user_queries)
            THEN PyList(<<user_queries.str>>)
            ELSE user_queries
    IN  IF Truthy(listed) THEN listed.list ELSE <<>>

\* the queries taken from the end of the list first
QueriesToSend_Reversed(args) ==
    LET queries ==
            IF args.helper = "session_helpers"
            THEN session_helpers_queries(args.user_queries)
            ELSE memory_helpers_queries(args.user_queries)
    IN  [k \in 1..Len(queries) |-> queries[Len(queries) + 1 - k]]

\* the queries the for loop of run_session goes through, in order
QueriesToSend(args) ==
    IF args.helper = "session_helpers"
    THEN session_helpers_queries(args.user_queries)
    ELSE memory_helpers_queries(args.user_queries)

\* "async for event in run_async(...)" has gone through the whole stream
Drained(unconsumed) == unconsumed = 0

\* the session id run_session passes to run_async: session.id in
\* session_helpers, the argument session_id in memory_helpers
RunSessionId ==
    IF run_args.helper = "session_helpers"
    THEN session_obj.id
    ELSE run_args.session_id

\* the session the runner looks up for a run_async call
RunnerKey(id) == SessionKey(runner_instance.app_name, run_args.user_id, id)

\* one runner.run_async call as the runner sees it
RunnerCall(id, text) ==
    [run |-> run_count,
     user_id |-> run_args.user_id,
     session_id |-> id,
     new_message |-> [role |-> "user", parts |-> <<[text |-> text]>>],
     found |-> RunnerKey(id) \in DOMAIN sessions,
     events_before |->
        IF RunnerKey(id) \in DOMAIN sessions
        THEN Len(sessions[RunnerKey(id)])
        ELSE 0,
     unconsumed |-> stream]

\* run_session is called: it creates or retrieves the session and works
\* out the queries to send
CallRunSession ==
    /\ run_pc \in {"idle", "returned"}
    /\ run_count < MaxSessionRuns
    /\ \E args \in SessionHelperArgs \cup MemoryHelperArgs :
          /\ run_args' = args
          /\ sessions' = EnsureSession(sessions, args).store
          /\ session_obj' = EnsureSession(sessions, args).session
          /\ pending' = QueriesToSend(args)
    /\ run_pc' = "queries"
    /\ run_count' = run_count + 1
    /\ UNCHANGED <<stream, runner_calls>>
    /\ UNCHANGED <<gateVars, workflowVars, logVars, loopVars>>
    /\ UNCHANGED <<currencyVars, pluginVars, evalVars>>

\* the for loop takes the next query and calls runner.run_async with it;
\* the runner raises when its service has no such session, and otherwise
\* records the query in the session and opens the stream of events
SendQuery ==
    /\ run_pc = "queries"
    /\ pending # <<>>
    /\ Drained(stream)
    /\ IF run_args.helper = "session_helpers" /\ session_obj = None
       THEN /\ run_pc' = "raised"
            /\ UNCHANGED <<sessions, pending, stream, runner_calls>>
       ELSE /\ runner_calls' =
                  Append(runner_calls, RunnerCall(RunSessionId, Head(pending)))
            /\ IF RunnerKey(RunSessionId) \in DOMAIN sessions
               THEN /\ sessions' =
                          [sessions EXCEPT ![RunnerKey(RunSessionId)] =
                              Append(@, Head(pending))]
                    /\ pending' = Tail(pending)
                    /\ stream' \in 0..MaxStream
                    /\ UNCHANGED run_pc
               ELSE /\ run_pc' = "raised"
                    /\ UNCHANGED <<sessions, pending, stream>>
    /\ UNCHANGED <<run_args, session_obj, run_count>>
    /\ UNCHANGED <<gateVars, workflowVars, logVars, loopVars>>
    /\ UNCHANGED <<currencyVars, pluginVars, evalVars>>

\* the async for loop receives the next event of the stream, which the
\* runner has recorded in the session
ReceiveEvent ==
    /\ run_pc = "queries"
    /\ stream > 0
    /\ stream' = stream - 1
    /\ sessions' =
          [sessions EXCEPT ![RunnerKey(RunSessionId)] = Append(@, "(event)")]
    /\ UNCHANGED <<run_pc, run_args, session_obj, pending, runner_calls,
                   run_count>>
    /\ UNCHANGED <<gateVars, workflowVars, logVars, loopVars>>
    /\ UNCHANGED <<currencyVars, pluginVars, evalVars>>

\* no query is left: run_session returns
ReturnFromRunSession ==
    /\ run_pc = "queries"
    /\ pending = <<>>
    /\ Drained(stream)
    /\ run_pc' = "returned"
    /\ UNCHANGED <<sessions, run_args, session_obj, pending, stream,
                   runner_calls, run_count>>
    /\ UNCHANGED <<gateVars, workflowVars, logVars, loopVars>>
    /\ UNCHANGED <<currencyVars, pluginVars, evalVars>>

SessionNext ==
    \/ CallRunSession
    \/ SendQuery
    \/ ReceiveEvent
    \/ ReturnFromRunSession

SessionInit ==
    /\ sessions = <<>>
    /\ run_pc = "idle"
    /\ run_args = None
    /\ session_obj = None
    /\ pending = <<>>
    /\ stream = 0
    /\ runner_calls = <<>>
    /\ run_count = 0

-----------------------------------------------------------------------------
(* day-2a, the currency tools (tools/currency_tools.py).  A float is the   *)
(* string of its decimal digits; a dict is a function on its keys.         *)

UpperCase == "ABCDEFGHIJKLMNOPQRSTUVWXYZ"

LowerCase == "abcdefghijklmnopqrstuvwxyz"

\* str.lower() of one character
LowerChar(c) ==
    IF \E i \in 1..Len(UpperCase) : SubSeq(UpperCase, i, i) = c
    THEN LET i == CHOOSE i \in 1..Len(UpperCase) : SubSeq(UpperCase, i, i) = c
         IN  SubSeq(LowerCase, i, i)
    ELSE c

RECURSIVE lower(_)
\* str.lower()
lower(s) ==
    IF s = ""
    THEN ""
    ELSE LowerChar(SubSeq(s, 1, 1)) \o lower(SubSeq(s, 2, Len(s)))

fee_database ==
    ("platinum credit card" :> "0.02")
        @@ ("gold debit card" :> "0.035")
        @@ ("bank transfer" :> "0.01")
        @@ ("silver card" :> "0.025")
        @@ ("wire transfer" :> "0.015")

rate_database ==
    ("usd" :> (("eur" :> "0.93") @@ ("jpy" :> "157.50") @@ ("inr" :> "83.58")
                  @@ ("gbp" :> "0.79") @@ ("cad" :> "1.35")))
        @@ ("eur" :> (("usd" :> "1.08") @@ ("gbp" :> "0.85")
                         @@ ("jpy" :> "169.50")))

\* get_fee_for_payment_method(method): fee_database.get(method.lower()) is
\* None exactly when the key is not in the dict
get_fee_for_payment_method(method) ==
    IF lower(method) \in DOMAIN fee_database
    THEN [status |-> "success",
          fee_percentage |-> fee_database[lower(method)]]
    ELSE [status |-> "error",
          error_message |->
            "Payment method '" \o method \o "' not found in our system"]

\* get_exchange_rate indexing the table, where an unknown base currency is
\* a KeyError
get_exchange_rate_Indexed(base_currency, target_currency) ==
    LET base == lower(base_currency)
        target == lower(target_currency)
    IN  IF base \notin DOMAIN rate_database
        THEN [raised |-> "KeyError"]
        ELSE IF target \in DOMAIN rate_database[base]
        THEN [status |-> "success", rate |-> rate_database[base][target]]
        ELSE [status |-> "error",
              error_message |->
                "Unsupported currency pair: " \o base_currency \o "/"
                    \o target_currency]

\* get_exchange_rate(base_currency, target_currency):
\* rate_database.get(base, {}).get(target)
get_exchange_rate(base_currency, target_currency) ==
    LET base == lower(base_currency)
        target == lower(target_currency)
        of_base ==
            IF base \in DOMAIN rate_database
            THEN rate_database[base]
            ELSE <<>>
    IN  IF target \in DOMAIN of_base
        THEN [status |-> "success", rate |-> of_base[target]]
        ELSE [status |-> "error",
              error_message |->
                "Unsupported currency pair: " \o base_currency \o "/"
                    \o target_currency]

\* currency codes a caller may pass
CurrencyCodes ==
    {"USD", "usd", "Usd", "EUR", "eur", "JPY", "GBP", "gbp", "cad", "INR",
     "XYZ", ""}

\* payment methods a caller may pass
PaymentMethods ==
    {"platinum credit card", "Platinum Credit Card", "GOLD DEBIT CARD",
     "bank transfer", "Bank Transfer", "silver card", "wire transfer",
     "WIRE TRANSFER", "bitcoin", "cash", ""}

CallExchangeRate ==
    /\ \E base_currency \in CurrencyCodes, target_currency \in CurrencyCodes :
          /\ tool_call' =
                [name |-> "get_exchange_rate",
                 base_currency |-> base_currency,
                 target_currency |-> target_currency]
          /\ tool_result' = get_exchange_rate(base_currency, target_currency)
    /\ UNCHANGED <<gateVars, workflowVars, logVars, loopVars>>
    /\ UNCHANGED <<sessionVars, pluginVars, evalVars>>

CallFeeForPaymentMethod ==
    /\ \E method \in PaymentMethods :
          /\ tool_call' =
                [name |-> "get_fee_for_payment_method", method |-> method]
          /\ tool_result' = get_fee_for_payment_method(method)
    /\ UNCHANGED <<gateVars, workflowVars, logVars, loopVars>>
    /\ UNCHANGED <<sessionVars, pluginVars, evalVars>>

CurrencyNext ==
    \/ CallExchangeRate
    \/ CallFeeForPaymentMethod

-----------------------------------------------------------------------------
(* day-4a, the custom plugins (examples/example_4_custom_plugins.py).  The *)
(* runner hands each callback to every registered plugin that defines it,  *)
(* in the order of registration.  PerformanceMonitorPlugin, registered     *)
(* between the two plugins below, keeps clock readings only and shares no  *)
(* field with them.  A tool_name that is None or empty is "".              *)

\* callbacks the runner dispatches in one behaviour
MaxCallbacks == 4

ToolNames == {"", "google_search", "get_exchange_rate"}

\* InvocationCounterPlugin.__init__
InvocationCounterPlugin ==
    [agent_count |-> 0, tool_count |-> 0, llm_request_count |-> 0]

\* ToolUsageTrackerPlugin.__init__
ToolUsageTrackerPlugin == [tool_usage |-> <<>>]

\* InvocationCounterPlugin.before_agent_callback
InvocationCounter_before_agent_callback(self) ==
    [self EXCEPT !.agent_count = @ + 1]

\* before_tool_callback counting the call as an agent invocation
InvocationCounter_before_tool_callback_Agent(self) ==
    [self EXCEPT !.agent_count = @ + 1]

\* InvocationCounterPlugin.before_tool_callback
InvocationCounter_before_tool_callback(self) ==
    [self EXCEPT !.tool_count = @ + 1]

\* InvocationCounterPlugin.before_model_callback
InvocationCounter_before_model_callback(self) ==
    [self EXCEPT !.llm_request_count = @ + 1]

\* dict.get(key, default)
Get(dict, key, default) ==
    IF key \in DOMAIN dict THEN dict[key] ELSE default

\* ToolUsageTrackerPlugin.before_tool_callback
ToolUsageTracker_before_tool_callback(self, tool_name) ==
    LET name == IF tool_name = "" THEN "unknown" ELSE tool_name
    IN  [self EXCEPT
            !.tool_usage = (name :> (Get(@, name, 0) + 1)) @@ @]

\* the runner dispatches before_agent_callback
BeforeAgent ==
    /\ received.total < MaxCallbacks
    /\ counter_plugin' = InvocationCounter_before_agent_callback(counter_plugin)
    /\ received' = [received EXCEPT !.before_agent = @ + 1, !.total = @ + 1]
    /\ UNCHANGED tool_tracker_plugin
    /\ UNCHANGED <<gateVars, workflowVars, logVars, loopVars>>
    /\ UNCHANGED <<sessionVars, currencyVars, evalVars>>

\* the runner dispatches before_tool_callback for a call of some tool
BeforeTool ==
    /\ received.total < MaxCallbacks
    /\ counter_plugin' = InvocationCounter_before_tool_callback(counter_plugin)
    /\ \E tool_name \in ToolNames :
          tool_tracker_plugin' =
              ToolUsageTracker_before_tool_callback(tool_tracker_plugin,
                                                    tool_name)
    /\ received' = [received EXCEPT !.before_tool = @ + 1, !.total = @ + 1]
    /\ UNCHANGED <<gateVars, workflowVars, logVars, loopVars>>
    /\ UNCHANGED <<sessionVars, currencyVars, evalVars>>

\* the runner dispatches before_model_callback
BeforeModel ==
    /\ received.total < MaxCallbacks
    /\ counter_plugin' = InvocationCounter_before_model_callback(counter_plugin)
    /\ received' = [received EXCEPT !.before_model = @ + 1, !.total = @ + 1]
    /\ UNCHANGED tool_tracker_plugin
    /\ UNCHANGED <<gateVars, workflowVars, logVars, loopVars>>
    /\ UNCHANGED <<sessionVars, currencyVars, evalVars>>

\* the runner dispatches after_agent_callback or after_tool_callback, which
\* neither of the two plugins defines
AfterAgentOrTool ==
    /\ received.total < MaxCallbacks
    /\ received' = [received EXCEPT !.after = @ + 1, !.total = @ + 1]
    /\ UNCHANGED <<counter_plugin, tool_tracker_plugin>>
    /\ UNCHANGED <<gateVars, workflowVars, logVars, loopVars>>
    /\ UNCHANGED <<sessionVars, currencyVars, evalVars>>

PluginNext ==
    \/ BeforeAgent
    \/ BeforeTool
    \/ BeforeModel
    \/ AfterAgentOrTool

-----------------------------------------------------------------------------
(* day-4b, analyze_results (utils/evaluation_helpers.py).  The results     *)
(* file is the dict json.load returns; a key a dict lacks is left out of   *)
(* the function that models it.  A score is a whole number of hundredths   *)
(* and an average is the pair <<sum, count>>.                              *)

\* cases in a results file
MaxCases == 2

\* the empty dict, {}
EmptyDict == <<>>

\* the "pass" entry of a case: missing, true or false
PassFlags == {"absent", "true", "false"}

\* the "conversation" entry of a case: missing, an empty list, a turn
\* without metrics, or a turn with both scores
Conversations == {"absent", "empty", "no metrics", "scored"}

CaseShapes ==
    [pass : PassFlags, conversation : Conversations, eval_id : BOOLEAN]

\* case number k of the file, of the given shape
ShapedCase(shape, k) ==
    (IF shape.eval_id
     THEN "eval_id" :> ("case_" \o ToString(k))
     ELSE EmptyDict)
    @@ (IF shape.pass = "absent"
        THEN EmptyDict
        ELSE "pass" :> (shape.pass = "true"))
    @@ (CASE shape.conversation = "absent" -> EmptyDict
          [] shape.conversation = "empty" -> "conversation" :> <<>>
          [] shape.conversation = "no metrics" ->
                "conversation" :> <<[user_content |-> "hello"]>>
          [] shape.conversation = "scored" ->
                "conversation" :>
                    <<[metrics |->
                        [response_match_score |-> 100,
                         tool_trajectory_avg_score |-> 50]]>>)

\* the results files: without eval_cases, or with up to MaxCases cases
ResultsFiles ==
    {[eval_set_id |-> "suite"]}
        \cup {[eval_set_id |-> "suite",
               eval_cases |-> [k \in 1..Len(shapes) |->
                                  ShapedCase(shapes[k], k)]] :
                 shapes \in UNION {[1..n -> CaseShapes] : n \in 0..MaxCases}}

\* case.get("conversation", [{}])[0] fails on an empty list
FirstTurnFails(case) == Len(Get(case, "conversation", <<EmptyDict>>)) = 0

\* case.get("conversation", [{}])[0].get("metrics", {})
MetricsOf(case) ==
    Get(Get(case, "conversation", <<EmptyDict>>)[1], "metrics", EmptyDict)

\* the entry appended to analysis["failures"]
FailureEntry(case) ==
    [eval_id |-> Get(case, "eval_id", "unknown"),
     response_score |-> Get(MetricsOf(case), "response_match_score", 0),
     tool_score |-> Get(MetricsOf(case), "tool_trajectory_avg_score", 0)]

\* one pass of the for loop of analyze_results
AnalyzeCase(acc, case) ==
    IF FirstTurnFails(case)
    THEN [raised |-> "IndexError"]
    ELSE [analysis |->
            IF Get(case, "pass", FALSE)
            THEN [acc.analysis EXCEPT !.passed = @ + 1]
            ELSE [acc.analysis EXCEPT
                    !.failed = @ + 1,
                    !.failures = Append(@, FailureEntry(case))],
          response_scores |->
            Append(acc.response_scores,
                   Get(MetricsOf(case), "response_match_score", 0)),
          tool_scores |->
            Append(acc.tool_scores,
                   Get(MetricsOf(case), "tool_trajectory_avg_score", 0))]

RECURSIVE AnalyzeFrom(_, _, _)
\* the for loop from case k on; an exception ends it
AnalyzeFrom(acc, cases, k) ==
    IF "raised" \in DOMAIN acc \/ k > Len(cases)
    THEN acc
    ELSE AnalyzeFrom(AnalyzeCase(acc, cases[k]), cases, k + 1)

RECURSIVE Sum(_)
\* sum(scores)
Sum(scores) ==
    IF scores = <<>> THEN 0 ELSE Head(scores) + Sum(Tail(scores))

\* sum(scores) / len(scores) when there are scores, and 0.0 otherwise
Average(scores) ==
    IF scores # <<>> THEN <<Sum(scores), Len(scores)>> ELSE <<0, 1>>

\* analyze_results(results_file), given what json.load returned
analyze_results(file) ==
    LET cases == Get(file, "eval_cases", <<>>)
        looped ==
            AnalyzeFrom(
                [analysis |->
                    [total_cases |-> Len(cases), passed |-> 0, failed |-> 0,
                     failures |-> <<>>, avg_response_score |-> <<0, 1>>,
                     avg_tool_score |-> <<0, 1>>],
                 response_scores |-> <<>>,
                 tool_scores |-> <<>>],
                cases, 1)
    IN  IF "raised" \in DOMAIN looped
        THEN looped
        ELSE [looped.analysis EXCEPT
                !.avg_response_score = Average(looped.response_scores),
                !.avg_tool_score = Average(looped.tool_scores)]

\* analyze_results is called on the file
AnalyzeResults ==
    /\ analysis = None
    /\ analysis' = analyze_results(results)
    /\ UNCHANGED results
    /\ UNCHANGED <<gateVars, workflowVars, logVars, loopVars>>
    /\ UNCHANGED <<sessionVars, currencyVars, pluginVars>>

EvalNext == AnalyzeResults

CurrencyInit ==
    /\ tool_call = None
    /\ tool_result = None

PluginInit ==
    /\ counter_plugin = InvocationCounterPlugin
    /\ tool_tracker_plugin = ToolUsageTrackerPlugin
    /\ received =
          [before_agent |-> 0, before_tool |-> 0, before_model |-> 0,
           after |-> 0, total |-> 0]

EvalInit ==
    /\ results = [eval_set_id |-> "suite"]
    /\ analysis = None


DayInit == SessionInit /\ CurrencyInit /\ PluginInit /\ EvalInit

GateInit ==
    /\ tool_context = NewToolContext(None)
    /\ last = None
    /\ pinned = None

WorkflowInit ==
    /\ pc = "idle"
    /\ request = 0
    /\ query = None
    /\ auto_approve = TRUE
    /\ session_id = ""
    /\ events = <<>>
    /\ approval_info = None
    /\ paused = {}
    /\ calls = <<>>
    /\ runs = <<>>

GateNext ==
    \/ FirstCall
    \/ ResumeCall
    \/ FreshContext

WorkflowNext ==
    \/ StartWorkflow
    \/ FirstRun
    \/ CheckApproval
    \/ ResumeRun
    \/ CompleteImmediately

LogInit == log = <<>>

LoopInit ==
    /\ pipeline_pc = "idle"
    /\ times_looped = 0
    /\ agent_trace = <<>>
    /\ story_state = None
    /\ escalate = FALSE

-----------------------------------------------------------------------------
(* check_for_approval on any list of events: each event has no content, or *)
(* parts that are a text, the function call of a tool, or a confirmation   *)
(* request; function calls have ids of their own.                          *)

PartKinds == {"text", "tool_call", "confirmation"}

\* an event is described by the kinds of its parts, or by <<"None">> when
\* its content is None
EventShapes ==
    UNION {[1..n -> PartKinds] : n \in 0..MaxParts} \cup {<<"None">>}

PartId(i, j) == "call-" \o ToString(i) \o "-" \o ToString(j)

\* part j of event i, of the given kind
ShapedPart(kind, i, j) ==
    CASE kind = "text" -> [text |-> "Order received"]
      [] kind = "tool_call" ->
            [function_call |->
                [id |-> PartId(i, j), name |-> "place_shipping_order"]]
      [] kind = "confirmation" ->
            [function_call |->
                [id |-> PartId(i, j), name |-> CONFIRMATION_CALL]]

\* event i, of the given shape
ShapedEvent(shape, i) ==
    IF shape = <<"None">>
    THEN [invocation_id |-> InvocationId(i)]
    ELSE [invocation_id |-> InvocationId(i),
          content |->
            [parts |-> [j \in 1..Len(shape) |-> ShapedPart(shape[j], i, j)]]]

EventLists ==
    {[i \in 1..Len(shapes) |-> ShapedEvent(shapes[i], i)] :
        shapes \in UNION {[1..n -> EventShapes] : n \in 0..MaxEvents}}

\* the helper is about to be called on some list of events
ApprovalInit ==
    /\ GateInit /\ LogInit /\ LoopInit /\ DayInit
    /\ pc = "collected"
    /\ request = 0
    /\ query = None
    /\ auto_approve = TRUE
    /\ session_id = ""
    /\ events \in EventLists
    /\ approval_info = None
    /\ paused = {}
    /\ calls = <<>>
    /\ runs = <<>>

ApprovalNext == CheckApproval

\* some results file is about to be analyzed
EvalFileInit ==
    /\ GateInit /\ WorkflowInit /\ LogInit /\ LoopInit
    /\ SessionInit /\ CurrencyInit /\ PluginInit
    /\ results \in ResultsFiles
    /\ analysis = None

Init == GateInit /\ WorkflowInit /\ LogInit /\ LoopInit /\ DayInit

Next == GateNext

\* the gate called directly, with any arguments
Spec == Init /\ [][Next]_vars

\* the gate driven through run_shipping_workflow
SpecWorkflow == Init /\ [][WorkflowNext]_vars

\* the gate called in and out of protocol, with the calls logged
SpecLog == Init /\ [][LogNext]_vars

\* check_for_approval applied to any list of events
SpecApproval == ApprovalInit /\ [][ApprovalNext]_vars

\* the story pipeline, which the runner drives until it has ended
SpecLoop == Init /\ [][LoopNext]_vars /\ WF_vars(LoopNext)

\* run_session called again and again on one runner
SpecSession == Init /\ [][SessionNext]_vars

\* the currency tools called with any arguments
SpecCurrency == Init /\ [][CurrencyNext]_vars

\* the runner dispatching callbacks to the registered plugins
SpecPlugins == Init /\ [][PluginNext]_vars

\* analyze_results applied to any results file
SpecEval == EvalFileInit /\ [][EvalNext]_vars

-----------------------------------------------------------------------------
(* Properties of the gate, called directly (Spec) *)

\* the last call had no confirmation present
LastIsFirstCall == last # None /\ last.tool_confirmation = None

\* the last call had a confirmation present
LastIsResume == last # None /\ last.tool_confirmation # None

\* the order ids of the quantities 0..5, auto-approved
AutoOrderIds ==
    <<"ORD-0-AUTO", "ORD-1-AUTO", "ORD-2-AUTO", "ORD-3-AUTO", "ORD-4-AUTO",
      "ORD-5-AUTO">>

\* the result r is an approval carrying the order id ORD-{q}-{tag}
ApprovedAs(r, q, tag) ==
    /\ r.status = "approved"
    /\ "order_id" \in DOMAIN r
    /\ r.order_id = "ORD-" \o ToString(q) \o "-" \o tag

\* the result r is a rejection carrying no order id
RejectedBare(r) ==
    /\ r.status = "rejected"
    /\ "order_id" \notin DOMAIN r

\* C1 as stated: every call with a confirmation present, whatever the
\* quantity, is approved as ORD-{quantity}-HUMAN when confirmed and rejected
\* with no order id when not
C1_ResumeIgnoresThreshold ==
    LastIsResume =>
        IF last.tool_confirmation.confirmed
        THEN ApprovedAs(last.result, last.num_containers, "HUMAN")
        ELSE RejectedBare(last.result)

\* C1 amended: a call with a confirmation present and a quantity above the
\* threshold is approved as ORD-{quantity}-HUMAN when confirmed and rejected
\* with no order id when not; with a quantity of at most 5 the threshold
\* decides first and the call is approved as ORD-{quantity}-AUTO whatever
\* the confirmation says
C1_ResumeDecision ==
    LastIsResume =>
        IF last.num_containers > 5
        THEN IF last.tool_confirmation.confirmed
             THEN ApprovedAs(last.result, last.num_containers, "HUMAN")
             ELSE RejectedBare(last.result)
        ELSE ApprovedAs(last.result, last.num_containers, "AUTO")

\* a declined confirmation with quantity 5 came back approved
C1_Witness ==
    /\ LastIsResume
    /\ last.num_containers = 5
    /\ ~last.tool_confirmation.confirmed
    /\ last.result.status = "approved"

\* C2: a first call with 0 <= quantity <= 5 returns approved with the order
\* id ORD-{quantity}-AUTO and issues no confirmation request
C2_SmallOrderAutoApproved ==
    (LastIsFirstCall /\ last.num_containers \in 0..5) =>
        /\ last.result.status = "approved"
        /\ "order_id" \in DOMAIN last.result
        /\ last.result.order_id = AutoOrderIds[last.num_containers + 1]
        /\ last.emitted = <<>>

\* a first call with the boundary quantity 5 was auto-approved
C2_Witness ==
    /\ LastIsFirstCall
    /\ last.num_containers = 5
    /\ last.result.status = "approved"
    /\ last.result.order_id = "ORD-5-AUTO"

\* C3: a first call with quantity > 5 returns pending, with no order id, and
\* issues exactly one confirmation request, whose payload is the quantity
\* and destination of the call and whose hint contains both
C3_LargeOrderPauses ==
    (LastIsFirstCall /\ last.num_containers > 5) =>
        /\ last.result.status = "pending"
        /\ "order_id" \notin DOMAIN last.result
        /\ Len(last.emitted) = 1
        /\ last.emitted[1].payload =
              [num_containers |-> last.num_containers,
               destination |-> last.destination]
        /\ Contains(last.emitted[1].hint, ToString(last.num_containers))
        /\ Contains(last.emitted[1].hint, last.destination)

\* a first call with quantity 6 paused with a request for Singapore
C3_Witness ==
    /\ LastIsFirstCall
    /\ last.num_containers = 6
    /\ last.destination = "Singapore"
    /\ last.result.status = "pending"
    /\ Len(last.emitted) = 1

\* the last call resumes the pinned one: the pinned first call returned
\* pending and the last call re-presents its request with a confirmation
LastResumesPinned ==
    /\ pinned # None
    /\ LastIsResume
    /\ pinned.result.status = "pending"
    /\ last.num_containers = pinned.num_containers
    /\ last.destination = pinned.destination

\* C4: after a first call with quantity > 5 returned pending, the resume
\* call with confirmed = true returns approved with ORD-{quantity}-HUMAN
C4_ResumeApproved ==
    (/\ LastResumesPinned
     /\ last.num_containers > 5
     /\ last.tool_confirmation.confirmed) =>
        ApprovedAs(last.result, pinned.num_containers, "HUMAN")

\* quantity 6 paused and was then approved by the human
C4_Witness ==
    /\ LastResumesPinned
    /\ pinned.num_containers = 6
    /\ last.tool_confirmation.confirmed
    /\ last.result.status = "approved"

\* C5: after a first call with quantity > 5 returned pending, the resume
\* call with confirmed = false returns rejected and carries no order id
C5_ResumeRejected ==
    (/\ LastResumesPinned
     /\ last.num_containers > 5
     /\ ~last.tool_confirmation.confirmed) =>
        RejectedBare(last.result)

\* quantity 6 paused and was then declined by the human
C5_Witness ==
    /\ LastResumesPinned
    /\ pinned.num_containers = 6
    /\ ~last.tool_confirmation.confirmed
    /\ last.result.status = "rejected"

\* C8: a call issues one confirmation request when it returns pending and
\* none when it returns approved or rejected
C8_RequestOnlyWhenPending ==
    last # None =>
        Len(last.emitted) = (IF last.result.status = "pending" THEN 1 ELSE 0)

\* both kinds happened on one context: an earlier call left its request on
\* it, and the last call, approved, added none
C8_Witness ==
    /\ last # None
    /\ last.result.status = "approved"
    /\ last.requested_before = 1
    /\ Len(tool_context.requested) = 1

\* C9: a first call returns the same result, and issues the same
\* confirmation request, as an earlier first call with the same quantity and
\* destination, whatever calls were made in between and whatever they left
\* on the context
C9_FirstCallRepeatable ==
    (/\ pinned # None
     /\ LastIsFirstCall
     /\ last.num_containers = pinned.num_containers
     /\ last.destination = pinned.destination) =>
        /\ last.result = pinned.result
        /\ last.emitted = pinned.emitted

\* 6 containers to Singapore were asked for on a new context, then a request
\* for another destination paused on a later context, then 6 containers to
\* Singapore were asked for again on that used context
C9_Witness ==
    /\ pinned # None
    /\ LastIsFirstCall
    /\ pinned.num_containers = 6
    /\ pinned.requested_before = 0
    /\ pinned.destination = "Singapore"
    /\ last.num_containers = 6
    /\ last.destination = "Singapore"
    /\ last.requested_before = 1
    /\ Len(tool_context.requested) = 2
    /\ tool_context.requested[1].payload.destination = ""

\* C10: every result has a status among approved, pending and rejected and a
\* message; it has an order id exactly when it is approved, and the order
\* id is then ORD-{quantity}-AUTO or ORD-{quantity}-HUMAN for the quantity
\* of the call
C10_ResultShape ==
    last # None =>
        /\ last.result.status \in {"approved", "pending", "rejected"}
        /\ "message" \in DOMAIN last.result
        /\ ("order_id" \in DOMAIN last.result)
              <=> (last.result.status = "approved")
        /\ last.result.status = "approved" =>
              \/ ApprovedAs(last.result, last.num_containers, "AUTO")
              \/ ApprovedAs(last.result, last.num_containers, "HUMAN")

\* a rejection was returned, with a message and no order id
C10_Witness ==
    /\ last # None
    /\ last.result.status = "rejected"
    /\ DOMAIN last.result = {"status", "message"}

\* the outcome the threshold comparison and the confirmation yield for
\* the last call: the status, and the tag of the order id if there is one
ThresholdOutcome ==
    IF last.num_containers <= 5
    THEN <<"approved", "AUTO">>
    ELSE IF last.tool_confirmation = None
    THEN <<"pending", "">>
    ELSE IF last.tool_confirmation.confirmed
    THEN <<"approved", "HUMAN">>
    ELSE <<"rejected", "">>

\* C11: no call ends in an error outcome; a call with a negative quantity or
\* an empty destination returns what the threshold comparison yields, and
\* a first call with a negative quantity is approved as ORD-{quantity}-AUTO
C11_NoErrorOutcome ==
    last # None =>
        /\ last.result.status \in {"approved", "pending", "rejected"}
        /\ "error_message" \notin DOMAIN last.result
        /\ (last.num_containers < 0 \/ last.destination = "") =>
              /\ last.result.status = ThresholdOutcome[1]
              /\ ThresholdOutcome[2] # "" =>
                    ApprovedAs(last.result, last.num_containers,
                               ThresholdOutcome[2])
        /\ (LastIsFirstCall /\ last.num_containers < 0) =>
              ApprovedAs(last.result, last.num_containers, "AUTO")

\* a first call for -1 containers to the empty destination was auto-approved
C11_Witness ==
    /\ LastIsFirstCall
    /\ last.num_containers = 0 - 1
    /\ last.destination = ""
    /\ last.result.status = "approved"
    /\ last.result.order_id = "ORD--1-AUTO"

\* C13: a request above the threshold gets a final decision only from a
\* call that carries a confirmation: without one the gate answers pending,
\* however often it is asked and whatever requests are waiting on the
\* context
C13_DecisionNeedsConfirmation ==
    (last # None /\ last.num_containers > 5) =>
        /\ last.tool_confirmation = None => last.result.status = "pending"
        /\ last.result.status \in {"approved", "rejected"} => LastIsResume

\* a request that paused was asked again, on a context where a request was
\* still waiting, and paused again
C13_Witness ==
    /\ pinned # None
    /\ pinned.result.status = "pending"
    /\ LastIsFirstCall
    /\ last.num_containers = pinned.num_containers
    /\ last.destination = pinned.destination
    /\ last.requested_before >= 1
    /\ last.result.status = "pending"

\* C14: whatever calls for other requests came before on the same context,
\* a call has the status and the order id it has when it is made alone, on
\* a context nothing else has used
C14_InterleavingInvisible ==
    last # None =>
        LET alone == place_shipping_order(last.num_containers,
                         last.destination,
                         NewToolContext(last.tool_confirmation)).result
        IN  /\ last.result.status = alone.status
            /\ ("order_id" \in DOMAIN last.result)
                  <=> ("order_id" \in DOMAIN alone)
            /\ "order_id" \in DOMAIN alone =>
                  last.result.order_id = alone.order_id

\* the calls of two requests interleaved: 6 containers to Singapore paused,
\* then a request for another destination paused, then the human's approval
\* for Singapore arrived on the context that request had used
C14_Witness ==
    /\ pinned # None
    /\ pinned.num_containers = 6
    /\ pinned.destination = "Singapore"
    /\ pinned.result.status = "pending"
    /\ LastIsResume
    /\ last.num_containers = 6
    /\ last.destination = "Singapore"
    /\ last.tool_confirmation.confirmed
    /\ last.requested_before = 1
    /\ Len(tool_context.requested) = 1
    /\ tool_context.requested[1].payload.destination = ""
    /\ last.result.order_id = "ORD-6-HUMAN"

-----------------------------------------------------------------------------
(* Properties of the gate driven through run_shipping_workflow             *)
(* (SpecWorkflow)                                                          *)

\* the Decision a call produced
Outcome(call) ==
    CASE call.result.status = "pending" -> "AWAITING_HUMAN"
      [] call.result.status = "rejected" -> "REJECTED"
      [] OTHER ->
            IF call.result.order_id = OrderId(call.num_containers, "AUTO")
            THEN "AUTO_APPROVED"
            ELSE "APPROVED"

\* the lifecycle state of the current request
Lifecycle == IF calls = <<>> THEN "START" ELSE Outcome(calls[Len(calls)])

LegalTransitions ==
    {<<"START", "AUTO_APPROVED">>,
     <<"START", "AWAITING_HUMAN">>,
     <<"AWAITING_HUMAN", "APPROVED">>,
     <<"AWAITING_HUMAN", "REJECTED">>}

\* C6: while a request is being worked on, every call of the gate moves its
\* lifecycle along START -> AUTO_APPROVED, START -> AWAITING_HUMAN,
\* AWAITING_HUMAN -> APPROVED or AWAITING_HUMAN -> REJECTED, so that no call
\* is made in AUTO_APPROVED, APPROVED or REJECTED
C6_LifecycleTransitions ==
    [][(request' = request /\ calls' # calls) =>
          /\ Len(calls') = Len(calls) + 1
          /\ <<Lifecycle, Lifecycle'>> \in LegalTransitions]_vars

\* a request went START -> AWAITING_HUMAN -> REJECTED and the workflow ended
C6_Witness ==
    /\ pc = "done"
    /\ Len(calls) = 2
    /\ Outcome(calls[1]) = "AWAITING_HUMAN"
    /\ Lifecycle = "REJECTED"

\* C7: for one request the gate is called at most twice: first with no
\* confirmation present, and a second time, with a confirmation present,
\* only when the first call paused and its confirmation request was seen by
\* the workflow; once resumed, no pause of the session is left to resume
C7_AtMostOneResume ==
    /\ Len(calls) <= 2
    /\ Len(calls) >= 1 => calls[1].tool_confirmation = None
    /\ Len(calls) = 2 =>
          /\ calls[2].tool_confirmation # None
          /\ calls[1].result.status = "pending"
          /\ Len(calls[1].emitted) = 1
          /\ approval_info # None
          /\ pc = "done"
          /\ \A p \in paused : p.session_id # session_id

\* a paused request was resumed with the human's approval
C7_Witness ==
    /\ Len(calls) = 2
    /\ calls[1].result.status = "pending"
    /\ calls[2].tool_confirmation = [confirmed |-> TRUE]
    /\ calls[2].result.status = "approved"

-----------------------------------------------------------------------------
(* Properties of logged calls (SpecLog) *)

\* the request of log[j] did not pause in any earlier call
NeverPausedBefore(j) ==
    \A i \in 1..(j - 1) :
        ~(/\ log[i].result.status = "pending"
          /\ log[i].num_containers = log[j].num_containers
          /\ log[i].destination = log[j].destination)

\* C15: a call with a confirmation present and quantity > 5, for a request
\* that never paused, is approved as ORD-{quantity}-HUMAN when confirmed and
\* rejected with no order id when not, and issues no confirmation request
C15_OutOfProtocolResume ==
    \A j \in 1..Len(log) :
        (/\ log[j].tool_confirmation # None
         /\ log[j].num_containers > 5
         /\ NeverPausedBefore(j)) =>
            /\ IF log[j].tool_confirmation.confirmed
               THEN ApprovedAs(log[j].result, log[j].num_containers, "HUMAN")
               ELSE RejectedBare(log[j].result)
            /\ log[j].emitted = <<>>

\* 7 containers paused; then an approval arrived for 6 containers, which
\* had never been asked for, and was taken
C15_Witness ==
    /\ Len(log) = 2
    /\ log[1].num_containers = 7
    /\ log[1].result.status = "pending"
    /\ log[2].num_containers = 6
    /\ log[2].tool_confirmation = [confirmed |-> TRUE]
    /\ log[2].result.status = "approved"
    /\ log[2].result.order_id = "ORD-6-HUMAN"

\* C16: two calls with the same quantity and the same confirmation have the
\* same status and the same order id, whatever their destinations
C16_DestinationIrrelevant ==
    \A i, j \in 1..Len(log) :
        (/\ log[i].num_containers = log[j].num_containers
         /\ log[i].tool_confirmation = log[j].tool_confirmation) =>
            /\ log[i].result.status = log[j].result.status
            /\ ("order_id" \in DOMAIN log[i].result)
                  <=> ("order_id" \in DOMAIN log[j].result)
            /\ "order_id" \in DOMAIN log[i].result =>
                  log[i].result.order_id = log[j].result.order_id

\* 6 containers were approved by the human for the empty destination and
\* for Singapore, with the same order id
C16_Witness ==
    /\ Len(log) = 2
    /\ log[1].num_containers = 6
    /\ log[2].num_containers = 6
    /\ log[1].destination = ""
    /\ log[2].destination = "Singapore"
    /\ log[1].tool_confirmation = [confirmed |-> TRUE]
    /\ log[2].tool_confirmation = [confirmed |-> TRUE]
    /\ log[2].result.order_id = "ORD-6-HUMAN"

\* C19: when a call paused and a later call, with a confirmation present and
\* another quantity, is approved, the approval is for the quantity and the
\* destination of the later call: its order id is ORD-{that quantity}-HUMAN
\* (ORD-{that quantity}-AUTO at or below the threshold), never the paused
\* quantity's
C19_ResumeUsesItsOwnArguments ==
    \A i, j \in 1..Len(log) :
        (/\ i < j
         /\ log[i].result.status = "pending"
         /\ log[j].tool_confirmation # None
         /\ log[j].num_containers # log[i].num_containers
         /\ log[j].result.status = "approved") =>
            /\ log[j].result.order_id =
                  "ORD-" \o ToString(log[j].num_containers) \o
                  (IF log[j].num_containers > 5 THEN "-HUMAN" ELSE "-AUTO")
            /\ log[j].result.num_containers = log[j].num_containers
            /\ log[j].result.destination = log[j].destination
            /\ log[j].result.order_id #
                  "ORD-" \o ToString(log[i].num_containers) \o "-HUMAN"

\* 6 containers paused, the approval came with 7 containers, and the order
\* approved is for 7
C19_Witness ==
    /\ Len(log) = 2
    /\ log[1].num_containers = 6
    /\ log[1].result.status = "pending"
    /\ log[2].num_containers = 7
    /\ log[2].destination = log[1].destination
    /\ log[2].tool_confirmation = [confirmed |-> TRUE]
    /\ log[2].result.order_id = "ORD-7-HUMAN"

-----------------------------------------------------------------------------
(* End-to-end properties of run_shipping_workflow (SpecWorkflow) *)

\* C12: when the first call of a request paused, the workflow ends with a
\* second call that reads the decision auto_approve as its confirmation,
\* and that call is approved as ORD-{quantity}-HUMAN exactly when
\* auto_approve is true and rejected with no order id exactly when it is
\* false
C12_DecisionReachesGate ==
    (/\ pc = "done"
     /\ calls # <<>>
     /\ calls[1].result.status = "pending") =>
        /\ Len(calls) = 2
        /\ Len(runs) = 2
        /\ runs[2].new_message.parts[1].function_response.response.confirmed
              = auto_approve
        /\ calls[2].tool_confirmation = [confirmed |-> auto_approve]
        /\ calls[2].num_containers = query.num_containers
        /\ IF auto_approve
           THEN ApprovedAs(calls[2].result, query.num_containers, "HUMAN")
           ELSE RejectedBare(calls[2].result)

\* a request for 6 containers paused, the simulated human declined, and the
\* request ended rejected
C12_Witness ==
    /\ pc = "done"
    /\ Len(calls) = 2
    /\ query.num_containers = 6
    /\ ~auto_approve
    /\ calls[1].result.status = "pending"
    /\ calls[2].result.status = "rejected"

\* part j of event i of the first run is a confirmation request
RequestAt(i, j) ==
    /\ "content" \in DOMAIN events[i]
    /\ j <= Len(events[i].content.parts)
    /\ "function_call" \in DOMAIN events[i].content.parts[j]
    /\ events[i].content.parts[j].function_call.name
          = "adk_request_confirmation"

\* the first run's events hold a confirmation request
RequestSeen ==
    \E i \in 1..Len(events), j \in 1..MaxParts : RequestAt(i, j)

\* C18: the workflow calls the runner at most twice; a second call is made
\* only when the events of the first hold a confirmation request, and it
\* has the session id of the first call, the invocation id of the event
\* that holds the request, and a function response named
\* adk_request_confirmation with the id of the request's function call;
\* when the events hold no confirmation request there is one call only
C18_ResumeCorrelated ==
    /\ Len(runs) <= 2
    /\ Len(runs) >= 1 => "invocation_id" \notin DOMAIN runs[1]
    /\ Len(runs) = 2 =>
          /\ runs[2].session_id = runs[1].session_id
          /\ runs[2].user_id = runs[1].user_id
          /\ \E i \in 1..Len(events), j \in 1..MaxParts :
                /\ RequestAt(i, j)
                /\ runs[2].invocation_id = events[i].invocation_id
                /\ runs[2].new_message.parts[1].function_response.id
                      = events[i].content.parts[j].function_call.id
                /\ runs[2].new_message.parts[1].function_response.name
                      = "adk_request_confirmation"
    /\ (pc = "done" /\ ~RequestSeen) => Len(runs) = 1

\* the second run of the second workflow answered that workflow's request
C18_Witness ==
    /\ Len(runs) = 2
    /\ request = 2
    /\ runs[2].session_id = "order_2"
    /\ runs[2].invocation_id = "e-2"
    /\ runs[2].new_message.parts[1].function_response.id = "adk-confirm-2-1"

-----------------------------------------------------------------------------
(* Properties of check_for_approval (SpecApproval) *)

\* C17: check_for_approval returns None exactly when no part of any event
\* is a function call named adk_request_confirmation; otherwise it returns
\* the function call id of the first such part, in event order and then
\* part order, and the invocation id of the event that holds it
C17_FirstRequestFound ==
    pc = "checked" =>
        /\ (approval_info = None) <=> ~RequestSeen
        /\ RequestSeen =>
              \E i \in 1..Len(events), j \in 1..MaxParts :
                 /\ RequestAt(i, j)
                 /\ \A i2 \in 1..Len(events), j2 \in 1..MaxParts :
                       RequestAt(i2, j2) => (i < i2 \/ (i = i2 /\ j <= j2))
                 /\ approval_info =
                       [approval_id |->
                            events[i].content.parts[j].function_call.id,
                        invocation_id |-> events[i].invocation_id]

\* the first event held a tool's function call and then a confirmation
\* request, the second another confirmation request; the first event's
\* request was returned
C17_Witness ==
    /\ pc = "checked"
    /\ Len(events) = 2
    /\ RequestAt(1, 2)
    /\ RequestAt(2, 1)
    /\ ~RequestAt(1, 1)
    /\ approval_info = [approval_id |-> "call-1-2", invocation_id |-> "e-1"]

-----------------------------------------------------------------------------
(* Properties of the story refinement loop (SpecLoop) *)

\* the agents of a full run, in order
FullRun ==
    <<"InitialWriterAgent", "CriticAgent", "RefinerAgent", "CriticAgent",
      "RefinerAgent">>

\* the agents that ran are the first ones of a full run, in order, and the
\* loop has not begun a third iteration
WithinTwoIterations ==
    /\ Len(agent_trace) <= Len(FullRun)
    /\ \A k \in 1..Len(agent_trace) : agent_trace[k].agent = FullRun[k]
    /\ \A k \in 1..Len(agent_trace) : agent_trace[k].iteration < 2
    /\ times_looped <= 2

\* C20: the pipeline ends, whatever the agents output; until then
\* InitialWriterAgent runs once, first, and CriticAgent and RefinerAgent
\* follow in that order, for at most 2 iterations
C20_LoopTerminates ==
    /\ <>(pipeline_pc = "done")
    /\ [](WithinTwoIterations)

\* the pipeline ended after two iterations in which the critic asked for
\* changes both times
C20_Witness ==
    /\ pipeline_pc = "done"
    /\ times_looped = 2
    /\ Len(agent_trace) = 5
    /\ story_state.critique = "Tighten the pacing"
    /\ agent_trace[3].tool_calls = <<>>
    /\ agent_trace[5].agent = "RefinerAgent"

\* C21: once RefinerAgent has called exit_loop the refinement loop is over:
\* the pipeline has ended and no agent ran after that call
C21_ExitLoopEndsLoop ==
    \A k \in 1..Len(agent_trace) :
        agent_trace[k].tool_calls = <<"exit_loop">>
            => /\ k = Len(agent_trace)
               /\ pipeline_pc = "done"

-----------------------------------------------------------------------------
(* Properties of run_session (SpecSession) *)

\* C22: whenever run_session sends a query, the session it names exists,
\* and a later query to the same session finds the earlier ones still there
C22_SessionHeldBeforeQuery ==
    /\ \A k \in 1..Len(runner_calls) : runner_calls[k].found
    /\ \A j, k \in 1..Len(runner_calls) :
          (j < k /\ runner_calls[j].session_id = runner_calls[k].session_id)
              => runner_calls[j].events_before < runner_calls[k].events_before

\* the texts of the queries the current run_session call has sent
SentThisRun ==
    LET mine == SelectSeq(runner_calls, LAMBDA c : c.run = run_count)
    IN  [k \in 1..Len(mine) |-> mine[k].new_message.parts[1].text]

\* a string as a one-element list, a list as it is, None as no query
AsList(user_queries) ==
    IF user_queries = None
    THEN <<>>
    ELSE IF IsStr(user_queries)
    THEN <<user_queries.str>>
    ELSE user_queries.list

IsPrefix(a, b) == Len(a) <= Len(b) /\ a = SubSeq(b, 1, Len(a))

\* the queries were sent one at a time, in the order of expected, each
\* after the stream of the one before was consumed, and all of them when
\* run_session has returned
SentInOrder(expected) ==
    /\ \A k \in 1..Len(runner_calls) : runner_calls[k].unconsumed = 0
    /\ IsPrefix(SentThisRun, expected)
    /\ run_pc = "returned" => SentThisRun = expected

\* C23 as stated: every string, the empty one too, is sent as a list of one
C23_EveryStringSent ==
    run_args # None => SentInOrder(AsList(run_args.user_queries))

\* in session_helpers an empty string is no query, like None
ExpectedQueries ==
    IF run_args.helper = "session_helpers" /\ run_args.user_queries = PyStr("")
    THEN <<>>
    ELSE AsList(run_args.user_queries)

\* C23: run_session sends the queries one at a time in list order, each
\* after the stream of the one before was consumed; a string is a list of
\* one, but None, an empty list and, in session_helpers, an empty string
\* lead to no runner call
C23_QueriesInOrder ==
    run_args # None => SentInOrder(ExpectedQueries)

\* a list of two queries was sent in order, an event was received for the
\* first, and run_session returned
C23_Witness ==
    /\ run_pc = "returned"
    /\ run_args # None
    /\ run_args.user_queries = PyList(QueryList(2))
    /\ SentThisRun = <<"query 1", "query 2">>
    /\ RunnerKey(run_args.session_id) \in DOMAIN sessions
    /\ Len(sessions[RunnerKey(run_args.session_id)]) >= 3
    /\ sessions[RunnerKey(run_args.session_id)][2] = "(event)"

-----------------------------------------------------------------------------
(* Properties of the currency tools (SpecCurrency) *)

\* the last call was of the tool of that name
Called(name) == tool_call # None /\ tool_call.name = name

\* the result reports a failure as a value
ErrorValue(result) ==
    /\ DOMAIN result = {"status", "error_message"}
    /\ result.status = "error"

\* C24: both tools always return a dict with a status: get_exchange_rate
\* succeeds with the table's rate exactly when the lower-cased pair is in
\* the rate table, get_fee_for_payment_method exactly when the lower-cased
\* method is in the fee table, and otherwise the status is error and an
\* error_message comes with it
C24_FailureIsAValue ==
    /\ Called("get_exchange_rate") =>
          LET base == lower(tool_call.base_currency)
              target == lower(tool_call.target_currency)
          IN  IF base \in DOMAIN rate_database
                    /\ target \in DOMAIN rate_database[base]
              THEN tool_result =
                      [status |-> "success",
                       rate |-> rate_database[base][target]]
              ELSE ErrorValue(tool_result)
    /\ Called("get_fee_for_payment_method") =>
          IF lower(tool_call.method) \in DOMAIN fee_database
          THEN /\ DOMAIN tool_result = {"status", "fee_percentage"}
               /\ tool_result.status = "success"
          ELSE ErrorValue(tool_result)

\* a currency nobody lists as a base was asked for, in mixed case, and the
\* answer is an error value that quotes the codes as they were typed
C24_Witness ==
    /\ Called("get_exchange_rate")
    /\ tool_call.base_currency = "GBP"
    /\ tool_call.target_currency = "Usd"
    /\ tool_result.status = "error"
    /\ tool_result.error_message = "Unsupported currency pair: GBP/Usd"

-----------------------------------------------------------------------------
(* Properties of the custom plugins (SpecPlugins) *)

RECURSIVE SumValues(_)
\* sum(dict.values())
SumValues(dict) ==
    IF DOMAIN dict = {}
    THEN 0
    ELSE LET key == CHOOSE key \in DOMAIN dict : TRUE
         IN  dict[key] + SumValues([k \in DOMAIN dict \ {key} |-> dict[k]])

\* C25: each counter of InvocationCounterPlugin equals the number of
\* callbacks of its kind that were dispatched, and the per-tool counts of
\* ToolUsageTrackerPlugin add up to tool_count
C25_CountersMatchCallbacks ==
    /\ counter_plugin.agent_count = received.before_agent
    /\ counter_plugin.tool_count = received.before_tool
    /\ counter_plugin.llm_request_count = received.before_model
    /\ SumValues(tool_tracker_plugin.tool_usage) = counter_plugin.tool_count

\* after callbacks of every kind, two of them for tools, one of which had
\* no name
C25_Witness ==
    /\ received.before_agent = 1
    /\ received.before_model = 1
    /\ received.before_tool = 2
    /\ DOMAIN tool_tracker_plugin.tool_usage = {"unknown", "google_search"}
    /\ counter_plugin.tool_count = 2

-----------------------------------------------------------------------------
(* Properties of analyze_results (SpecEval) *)

\* the cases of the file whose pass flag is missing or false
NotPassed ==
    {k \in 1..Len(Get(results, "eval_cases", <<>>)) :
        ~Get(results.eval_cases[k], "pass", FALSE)}

\* C26: for every results file analyze_results returns an analysis in which
\* passed + failed = total_cases and failures has one entry for each case
\* whose pass flag is missing or false, failed of them
C26_CountsAddUp ==
    analysis # None =>
        /\ "total_cases" \in DOMAIN analysis
        /\ analysis.total_cases = Len(Get(results, "eval_cases", <<>>))
        /\ analysis.passed + analysis.failed = analysis.total_cases
        /\ Len(analysis.failures) = analysis.failed
        /\ analysis.failed = Cardinality(NotPassed)

====
